---- MODULE Spec2Model ----
(***************************************************************************)
(* ProPhyle (karel-brinda/prophyle): k-mer propagation driven by the       *)
(* generated Makefile (prophyle_propagation_makefile.py), the k-mer set    *)
(* prototype (python_variant/metag.py) and the staged index build          *)
(* (prophyle.py: prophyle_index).                                          *)
(*                                                                         *)
(* Three specifications share the variables:                               *)
(*   SpecProp   one `make` run of the propagation Makefile from a clean    *)
(*              directory, for every tree shape and leaf sequences drawn   *)
(*              from SeqPool, every interleaving of the rules;             *)
(*   SpecMake   the same rules with failing commands, interrupts,          *)
(*              repeated `make` runs, updated library files and            *)
(*              `make clean`;                                              *)
(*   SpecIndex  repeated invocations of prophyle_index with failing steps. *)
(***************************************************************************)
EXTENDS Integers, Sequences, FiniteSets, TLC

VARIABLES
    parent,     \* the minimal subtree T': node |-> parent (0 for the root)
    seq,        \* leaf |-> sequence of its library FASTA
    threads,    \* make -j <threads>
    fa,         \* <<node, "full" | "reduced">> |-> the FASTA file [st, kmers]
    count,      \* node |-> <node>.count.tsv   (-1: no file)
    mark,       \* rule |-> state of the rule's target, the .complete marker
    job,        \* rule |-> position of the rule's recipe
    make,       \* state of the make process
    idx,        \* state of the index build (prophyle_index)
    rd,         \* the Read object of prophyle_assignment.py and its output
    mn,         \* the process of prophyle_assignment.py (main)
    asm         \* the state of set_to_fasta (metag.py)

pvars == <<parent, seq, threads, fa, count, mark, job, make>>
vars == <<parent, seq, threads, fa, count, mark, job, make, idx, rd, mn, asm>>

(***************************************************************************)
(* Bounds.                                                                 *)
(***************************************************************************)
MaxNodes == 5       \* nodes of a loaded tree
MaxJobs == 2        \* make -j
MaxMakeNodes == 4   \* nodes of a loaded tree under SpecMake
MaxRuns == 3        \* invocations of prophyle_index in one behaviour
MaxBlocks == 2      \* blocks of an input line of the assignment
MaxKmers == 2       \* k-mers of an input line (the sum of the counts)

\* k-mer length (-k): the scenarios of the specification use k = 3.
K == 3

(***************************************************************************)
(* K-mers (python_variant/metag.py).  A sequence is a tuple of letters.    *)
(***************************************************************************)
dna_alphabet == {"A", "C", "G", "T"}

comp_dict == [x \in dna_alphabet |->
                 CASE x = "A" -> "T" [] x = "C" -> "G"
                   [] x = "G" -> "C" [] x = "T" -> "A"]

\* dna[::-1]
Reversed(dna) == [i \in 1..Len(dna) |-> dna[Len(dna) + 1 - i]]

reverse_complement(dna) == [i \in 1..Len(dna) |-> comp_dict[Reversed(dna)[i]]]

is_dna(dna) == \A i \in 1..Len(dna) : dna[i] \in dna_alphabet

\* Python's str comparison on letters of the DNA alphabet (code points).
Ord(c) == CASE c = "A" -> 65 [] c = "C" -> 67 [] c = "G" -> 71 [] c = "T" -> 84
            [] OTHER -> 78

StrLess(a, b) ==
    \/ \E i \in 1..Len(a) :
          /\ i <= Len(b)
          /\ Ord(a[i]) < Ord(b[i])
          /\ \A j \in 1..(i - 1) : a[j] = b[j]
    \/ /\ Len(a) < Len(b)
       /\ \A j \in 1..Len(a) : a[j] = b[j]

\* The exception Python raises in canonical_repr: the assignment
\*     reverse_complement=reverse_complement(forward)
\* makes the name local to the function, so the call on its right-hand side
\* reads an unbound local.  No value is ever returned.
UnboundLocalError == <<"UnboundLocalError">>

canonical_repr(dna) == UnboundLocalError

\* set_from_fasta for one FASTA record: every window of length k over the
\* DNA alphabet; both strands when canonical is off, canonical_repr's result
\* (the exception, which aborts the call) when it is on.
Windows(sequence, k) ==
    {SubSeq(sequence, i, i + k - 1) : i \in 1..(Len(sequence) - k + 1)}

set_from_fasta(sequence, k, canonical) ==
    LET kmers == {w \in Windows(sequence, k) : is_dna(w)}
    IN  IF canonical
        THEN IF kmers = {} THEN {} ELSE UnboundLocalError
        ELSE kmers \cup {reverse_complement(w) : w \in kmers}

\* The k-mer extraction of prophyle_assembler (a k-mer's canonical form is
\* the lexicographically smaller of itself and its reverse complement;
\* windows with a non-ACGT letter are skipped).
Canonical(kmer) ==
    IF StrLess(reverse_complement(kmer), kmer)
    THEN reverse_complement(kmer) ELSE kmer

extract_canonical(sequence, k) ==
    {Canonical(w) : w \in {x \in Windows(sequence, k) : is_dna(x)}}

\* Library sequences a leaf may carry: the three of scenario E1.
SeqPool == { <<"A", "C", "G", "T">>, <<"A", "C", "G", "A">>,
             <<"T", "T", "T", "T">> }

(***************************************************************************)
(* Trees.  A loaded tree is a parent array over 1..m with root 1; the      *)
(* Makefile is generated for its minimal subtree.                          *)
(***************************************************************************)
LoadedTrees(m) ==
    {p \in UNION {[1..n -> 0..(n - 1)] : n \in 1..m} :
        /\ p[1] = 0
        /\ \A i \in DOMAIN p : i > 1 => (p[i] >= 1 /\ p[i] < i)
        /\ \A i \in DOMAIN p : \A j \in DOMAIN p : (1 < i /\ i < j) => p[i] <= p[j]}

Children(p, v) == {c \in DOMAIN p : p[c] = v}

RECURSIVE KeptAncestor(_, _, _)
KeptAncestor(p, keep, a) ==
    IF a = 0 \/ a \in keep THEN a ELSE KeptAncestor(p, keep, p[a])

\* pro.minimal_subtree: every non-root node with exactly one child is
\* contracted; the root stays even when it has one child.
minimal_subtree(p) ==
    LET keep == {v \in DOMAIN p : p[v] = 0 \/ Cardinality(Children(p, v)) # 1}
    IN  [v \in keep |-> KeptAncestor(p, keep, p[v])]

Nodes == DOMAIN parent
Root == CHOOSE v \in Nodes : parent[v] = 0
get_children(v) == Children(parent, v)
is_leaf(v) == get_children(v) = {}
Leaves == {v \in Nodes : is_leaf(v)}

RECURSIVE AncestorsOf(_, _)
AncestorsOf(p, v) ==
    IF p[v] = 0 THEN {} ELSE {p[v]} \cup AncestorsOf(p, p[v])

Ancestors(v) == AncestorsOf(parent, v)
LeavesBelow(v) == {l \in Leaves : l = v \/ v \in Ancestors(l)}

\* The lowest common ancestor of a non-empty set of nodes.
LCA(S) ==
    LET common == {a \in Nodes : \A s \in S : a = s \/ a \in Ancestors(s)}
    IN  CHOOSE a \in common : \A b \in common : b = a \/ b \in Ancestors(a)

(***************************************************************************)
(* The generated Makefile.  Rule v (a node) has the target                 *)
(* <v>.full.fa.complete; rule 0 is the root link rule with the target      *)
(* <root>.reduced.fa.complete, the prerequisite of `all`.                  *)
(***************************************************************************)
RootLink == 0
Rules == Nodes \cup {RootLink}

\* A FASTA file is abstracted by the canonical k-mers it holds.  "partial":
\* opened for writing by a command that has not finished; "link": the
\* symbolic link of the root link rule.
NoFile == [st |-> "absent", kmers |-> {}]
Opened == [st |-> "partial", kmers |-> {}]
Whole(S) == [st |-> "whole", kmers |-> S]
SymLink == [st |-> "link", kmers |-> {}]

nonreduced_fasta_fn(node) == <<node, "full">>
reduced_fasta_fn(node) == <<node, "reduced">>
FileNames == Nodes \X {"full", "reduced"}

\* process_node: the files the assembly rule of an internal node is wired
\* to; the i-th output belongs to the i-th input (the i-th child).
input_files(node) == [x \in get_children(node) |-> nonreduced_fasta_fn(x)]

\* Mutant: the outputs are written over the children's full files.
output_files_full(node) == [x \in get_children(node) |-> nonreduced_fasta_fn(x)]

\* Mutant: the outputs are listed in another order than the inputs (each
\* child receives the residual of its next sibling).
output_files_shifted(node) ==
    LET ch == get_children(node)
        next(x) == IF \E y \in ch : y > x
                   THEN CHOOSE y \in ch : y > x /\ \A z \in ch : z > x => y <= z
                   ELSE CHOOSE y \in ch : \A z \in ch : y <= z
    IN  [x \in ch |-> reduced_fasta_fn(next(x))]

output_files(node) == [x \in get_children(node) |-> reduced_fasta_fn(x)]
intersection_file(node) == nonreduced_fasta_fn(node)

\* The prerequisites of rule r that are targets of other rules:
\* {xcompl}: {icompl} for an assembly rule ({icompl} are the markers of
\* the input files), {root_red_compl}: {root_nonred_compl} for the link
\* rule; a leaf's rule depends on its library files only.
\* Mutant: the assembly rule is written without {icompl}.
Prereqs_no_icompl(r) == IF r = RootLink THEN {Root} ELSE {}

Prereqs(r) ==
    IF r = RootLink THEN {Root}
    ELSE IF is_leaf(r) THEN {}
    ELSE {input_files(r)[x][1] : x \in get_children(r)}

Dependents(r) == {d \in Rules : r \in Prereqs(d)}

\* Mutant: the marker is touched before the command runs.
Recipe_touch_first == <<"touch", "cmd">>

\* The lines of every recipe, in order: the command, then `@touch $@`.
Recipe == <<"cmd", "touch">>

\* prophyle_assembler -x X -i I1 -i I2 ... -o O1 -o O2 ... -s C, deletative:
\* X receives the k-mers common to all inputs, Oi receives Ii without them,
\* C the size of X.
AsmIntersection(S) ==
    IF S = {} THEN {}
    ELSE LET one == CHOOSE s \in S : TRUE
         IN  {x \in one : \A s \in S : x \in s}

AsmReduced(I, X) == I \ X


(***************************************************************************)
(* GNU make running the generated rules.  A marker is "fresh" when it      *)
(* exists and is newer than every prerequisite of its rule, "stale" when   *)
(* it exists and some prerequisite is newer.                               *)
(***************************************************************************)
Running(r) == job[r] # 0
JobsRunning == {r \in Rules : Running(r)}
Line(r) == Recipe[job[r]]

\* The files the command of rule r writes.
Outputs(r) ==
    IF r = RootLink THEN {}
    ELSE IF is_leaf(r) THEN {nonreduced_fasta_fn(r)}
    ELSE {intersection_file(r)} \cup {output_files(r)[x] : x \in get_children(r)}

\* The shell starts line i of rule r's recipe: a command line opens (and
\* truncates) its output files.
EnterLine(r, i) ==
    IF Recipe[i] = "cmd"
    THEN [f \in FileNames |-> IF f \in Outputs(r) THEN Opened ELSE fa[f]]
    ELSE fa

\* After line i of rule r's recipe returned 0.
Advance(r, i, files) ==
    IF i = Len(Recipe)
    THEN /\ job' = [job EXCEPT ![r] = 0]
         /\ fa' = files
    ELSE /\ job' = [job EXCEPT ![r] = i + 1]
         /\ fa' = [f \in FileNames |->
                     IF Recipe[i + 1] = "cmd" /\ f \in Outputs(r)
                     THEN Opened ELSE files[f]]

\* make considers a target up to date when it is newer than its
\* prerequisites and they, in turn, are up to date.
RECURSIVE UpToDate(_)
UpToDate(r) ==
    /\ mark[r] = "fresh"
    /\ ~Running(r)
    /\ \A q \in Prereqs(r) : UpToDate(q)

\* make starts the recipe of rule r: its target is out of date, every
\* prerequisite is up to date, a job slot is free and no recipe has failed.
Start(r) ==
    /\ make = "running"
    /\ ~Running(r)
    /\ mark[r] # "fresh"
    /\ \A q \in Prereqs(r) : UpToDate(q)
    /\ Cardinality(JobsRunning) < threads
    /\ job' = [job EXCEPT ![r] = 1]
    /\ fa' = EnterLine(r, 1)
    /\ UNCHANGED <<parent, seq, threads, count, mark, make, idx, rd, mn, asm>>

\* What a finished command of rule r leaves in the files.
\*   leaf:      cat $^ > <leaf>.full.fa
\*   internal:  $(PRG_ASM) -S -k $(K) -x {x} -i {ii} -o {oo} -s {c}
\*   link rule: ln -s {root_nonred} {root_red}
CmdFiles(r) ==
    IF r = RootLink
    THEN [fa EXCEPT ![reduced_fasta_fn(Root)] = SymLink]
    ELSE IF is_leaf(r)
    THEN [fa EXCEPT ![nonreduced_fasta_fn(r)] = Whole(extract_canonical(seq[r], K))]
    ELSE LET ins == input_files(r)
             X == AsmIntersection({fa[ins[x]].kmers : x \in get_children(r)})
         IN  [f \in FileNames |->
                IF f = intersection_file(r) THEN Whole(X)
                ELSE IF \E x \in get_children(r) : output_files(r)[x] = f
                THEN LET x == CHOOSE y \in get_children(r) : output_files(r)[y] = f
                     IN  Whole(AsmReduced(fa[ins[x]].kmers, X))
                ELSE fa[f]]

\* Whether the command of rule r can return 0: the assembler needs its
\* input files, ln -s fails when the link name exists.
CmdCanSucceed(r) ==
    IF r = RootLink THEN fa[reduced_fasta_fn(Root)].st = "absent"
    ELSE IF is_leaf(r) THEN TRUE
    ELSE \A x \in get_children(r) : fa[input_files(r)[x]].st # "absent"

CmdOk(r) ==
    /\ Running(r)
    /\ Line(r) = "cmd"
    /\ CmdCanSucceed(r)
    /\ Advance(r, job[r], CmdFiles(r))
    /\ count' = IF r # RootLink /\ ~is_leaf(r)
                THEN [count EXCEPT ![r] =
                        Cardinality(CmdFiles(r)[intersection_file(r)].kmers)]
                ELSE count
    /\ UNCHANGED <<parent, seq, threads, mark, make, idx, rd, mn, asm>>

\* @touch $@: the marker becomes the newest file, so the markers of the
\* rules that depend on it, where they exist, are older than it.
Touch(r) ==
    /\ Running(r)
    /\ Line(r) = "touch"
    /\ mark' = [d \in Rules |->
                  IF d = r THEN "fresh"
                  ELSE IF d \in Dependents(r) /\ mark[d] # "absent" THEN "stale"
                  ELSE mark[d]]
    /\ Advance(r, job[r], fa)
    /\ UNCHANGED <<parent, seq, threads, count, make, idx, rd, mn, asm>>

\* make ends: all recipes returned (its goal is made, or a recipe failed
\* and the jobs that were running have finished).
MakeExit ==
    /\ make \in {"running", "failing"}
    /\ JobsRunning = {}
    /\ make = "failing" \/ UpToDate(RootLink)
    /\ make' = IF make = "failing" THEN "error" ELSE "done"
    /\ UNCHANGED <<parent, seq, threads, fa, count, mark, job, idx, rd, mn, asm>>

\* The command of rule r returns non-zero: the recipe stops before its
\* next line, and make starts no further recipe.
CmdFail(r) ==
    /\ Running(r)
    /\ Line(r) = "cmd"
    /\ job' = [job EXCEPT ![r] = 0]
    /\ make' = "failing"
    /\ UNCHANGED <<parent, seq, threads, fa, count, mark, idx, rd, mn, asm>>

\* SIGINT: make and every running recipe are killed where they are.
Interrupt ==
    /\ make \in {"running", "failing"}
    /\ JobsRunning # {}
    /\ job' = [r \in Rules |-> 0]
    /\ make' = "interrupted"
    /\ UNCHANGED <<parent, seq, threads, fa, count, mark, idx, rd, mn, asm>>

\* _propagate runs make again in the same propagation directory.
MakeRun ==
    /\ make \in {"error", "interrupted", "done"}
    /\ make' = "running"
    /\ UNCHANGED <<parent, seq, threads, fa, count, mark, job, idx, rd, mn, asm>>

\* A library FASTA of leaf l is rewritten between two runs: it is newer
\* than the marker of the leaf's rule.
LibUpdate(l) ==
    /\ make \in {"error", "interrupted", "done"}
    /\ is_leaf(l)
    /\ mark[l] = "fresh"
    /\ mark' = [mark EXCEPT ![l] = "stale"]
    /\ UNCHANGED <<parent, seq, threads, fa, count, job, make, idx, rd, mn, asm>>

\* make clean: rm -f *.complete *.fa *.tsv
Clean ==
    /\ make \in {"error", "interrupted", "done"}
    /\ \E f \in FileNames : fa[f].st # "absent"
    /\ fa' = [f \in FileNames |-> NoFile]
    /\ count' = [v \in Nodes |-> -1]
    /\ mark' = [r \in Rules |-> "absent"]
    /\ UNCHANGED <<parent, seq, threads, job, make, idx, rd, mn, asm>>

(***************************************************************************)
(* prophyle_index (prophyle.py): five stages guarded by the marker files   *)
(* .complete.1 .. .complete.5 of the index directory.                      *)
(***************************************************************************)
NStages == 5

\* The statements of each section of prophyle_index that runs when
\* `recompute` is set, in program order.  "s45" is the parallel SA + k-LCP
\* construction (followed by `return`), "s4" the SA alone, "s5" the k-LCP
\* alone.
Body_mark3_early ==
    [s1 |-> <<"validate_trees", "merge_message", "propagation_preprocessing",
              "mark1">>,
     s2 |-> <<"create_makefile", "propagate", "propagation_postprocessing",
              "kmer_stats", "remove_tmp", "mark2">>,
     s3 |-> <<"rm_bwt", "fa2pac", "pac2bwt", "mark3", "bwt2bwtocc">>,
     s45 |-> <<"bwtocc2sa_klcp", "mark4", "mark5">>,
     s4 |-> <<"bwtocc2sa">>,
     s5 |-> <<"bwtocc2klcp", "mark5">>]

Body ==
    [s1 |-> <<"validate_trees", "merge_message", "propagation_preprocessing",
              "mark1">>,
     s2 |-> <<"create_makefile", "propagate", "propagation_postprocessing",
              "kmer_stats", "remove_tmp", "mark2">>,
     s3 |-> <<"rm_bwt", "fa2pac", "pac2bwt", "bwt2bwtocc", "mark3">>,
     s45 |-> <<"bwtocc2sa_klcp", "mark4", "mark5">>,
     s4 |-> <<"bwtocc2sa">>,
     s5 |-> <<"bwtocc2klcp", "mark5">>]

\* _mark_complete(index_dir, n) statements.
MarkOf(step) ==
    CASE step = "mark1" -> 1 [] step = "mark2" -> 2 [] step = "mark3" -> 3
      [] step = "mark4" -> 4 [] step = "mark5" -> 5 [] OTHER -> 0

\* The stage whose marker the section's `if not _is_complete(index_dir, n)`
\* tests, and the stages whose work the section's body does.
StageTested(sec) ==
    CASE sec = "s1" -> 1 [] sec = "s2" -> 2 [] sec = "s3" -> 3
      [] sec = "s45" -> 4 [] sec = "s4" -> 4 [] sec = "s5" -> 5

StagesOf(sec) == IF sec = "s45" THEN {4, 5} ELSE {StageTested(sec)}

\* The section control reaches after section sec ("end": the function
\* returns).  `ran` tells whether the body of sec was executed.
NextSec(sec, klcp, ran) ==
    CASE sec = "s1" -> "s2"
      [] sec = "s2" -> "s3"
      [] sec = "s3" -> IF klcp THEN "s45" ELSE "s4"
      [] sec = "s45" -> IF ran THEN "end" ELSE "s4"
      [] sec = "s4" -> IF klcp THEN "s5" ELSE "end"
      [] sec = "s5" -> "end"

\* Marker files carry modification times; only their order matters, so the
\* times are kept as ranks 1..NStages (0: no file).  pro.touch makes the
\* marker the newest file.
Touched(mt, n) ==
    LET raw == [mt EXCEPT ![n] = NStages + 1]
        vals == {raw[j] : j \in 1..NStages} \ {0}
    IN  [j \in 1..NStages |->
            IF raw[j] = 0 THEN 0 ELSE Cardinality({v \in vals : v <= raw[j]})]

\* Mutant: the marker of step i only has to exist.
is_complete_exists(mt, i) == mt[i] # 0

\* _is_complete(d, i): the marker of step i exists and, for i > 1, is newer
\* than the marker of step i - 1.
is_complete(mt, i) ==
    IF i = 1 THEN mt[1] # 0
    ELSE mt[i - 1] # 0 /\ mt[i] # 0 /\ mt[i] > mt[i - 1]

Ended == idx.pc \in {"idle", "done", "failed"}

\* A call of prophyle_index(force, construct_klcp, trees_fn, keep_tmp_files).
IndexBegin(force, klcp, ntrees, keep) ==
    /\ Ended
    /\ idx.run < MaxRuns
    /\ idx' = [idx EXCEPT
                 !.pc = "check", !.sec = "s1", !.i = 0,
                 !.recompute = force,
                 !.force = force, !.klcp = klcp, !.ntrees = ntrees, !.keep = keep,
                 !.run = idx.run + 1,
                 !.executed = {}, !.started = {}, !.stepsDone = {},
                 !.written = {}, !.failed = 0, !.checked = {},
                 !.changed = FALSE,
                 !.prev = [ok |-> idx.pc = "done", failed |-> idx.failed,
                           force |-> idx.force, klcp |-> idx.klcp,
                           ntrees |-> idx.ntrees, keep |-> idx.keep,
                           changed |-> idx.changed]]
    /\ UNCHANGED <<pvars, rd, mn, asm>>

\* Control moves past section sec.
Leave(rec, ran) ==
    LET n == NextSec(rec.sec, rec.klcp, ran)
    IN  IF n = "end" THEN [rec EXCEPT !.pc = "done", !.i = 0]
        ELSE [rec EXCEPT !.pc = "check", !.sec = n, !.i = 0]

\* Mutant: the test of a section looks at the markers only, not at
\* `recompute`.
Check_ignores_recompute ==
    /\ idx.pc = "check"
    /\ LET rc == \/ ~is_complete(idx.mt, StageTested(idx.sec))
                 \/ (idx.sec = "s1" /\ ~idx.treeFresh)
           seen == [idx EXCEPT !.checked = @ \cup
                      IF idx.sec = "s45" /\ ~rc THEN {}
                      ELSE {[stage |-> n, mt |-> idx.mt, trees |-> idx.treeFresh,
                             skipped |-> ~rc] : n \in StagesOf(idx.sec)}]
       IN  idx' = IF rc
                  THEN [seen EXCEPT !.pc = "body", !.i = 1,
                                    !.executed = @ \cup StagesOf(idx.sec),
                                    !.started = @ \cup {idx.sec}]
                  ELSE Leave(seen, FALSE)
    /\ UNCHANGED <<pvars, rd, mn, asm>>

\* idx.checked records, for every stage whose work the section decides
\* on, the marker times and the freshness of tree.preliminary.nw at the
\* test, and whether the work was skipped.  When the test of the parallel
\* section fails to enter its body, control reaches the tests of the
\* sections "s4" and "s5", which decide.
\* The test at the head of a section:
\*     if not _is_complete(index_dir, n) [or the trees are newer than
\*     tree.preliminary.nw]: recompute = True
\*     if recompute: <body> else: <message>
Check ==
    /\ idx.pc = "check"
    /\ LET stale == \/ ~is_complete(idx.mt, StageTested(idx.sec))
                     \/ (idx.sec = "s1" /\ ~idx.treeFresh)
           rc == idx.recompute \/ stale
           seen == [idx EXCEPT !.checked = @ \cup
                      IF idx.sec = "s45" /\ ~rc THEN {}
                      ELSE {[stage |-> n, mt |-> idx.mt, trees |-> idx.treeFresh,
                             skipped |-> ~rc] : n \in StagesOf(idx.sec)}]
       IN  idx' = IF rc
                  THEN [seen EXCEPT !.recompute = TRUE, !.pc = "body", !.i = 1,
                                    !.executed = @ \cup StagesOf(idx.sec),
                                    !.started = @ \cup {idx.sec}]
                  ELSE Leave(seen, FALSE)
    /\ UNCHANGED <<pvars, rd, mn, asm>>

Step == Body[idx.sec][idx.i]

\* After statement i of the body.
StepDone(rec) ==
    IF rec.i = Len(Body[rec.sec]) THEN Leave(rec, TRUE)
    ELSE [rec EXCEPT !.i = rec.i + 1]

\* Statements that cannot return normally / cannot fail:
\* 'Merging {} trees{}'.format(len(trees_fn)) has two fields and one
\* argument, and is evaluated when len(trees_fn) != 1; pro.rm and the
\* message printed for kept temporary files do not fail.
MustFail(step, rec) == step = "merge_message" /\ rec.ntrees # 1
CannotFail(step, rec) ==
    \/ (step = "merge_message" /\ rec.ntrees = 1)
    \/ step = "rm_bwt"
    \/ (step = "remove_tmp" /\ rec.keep)

\* A statement of the body returns.
StepOk ==
    /\ idx.pc = "body"
    /\ MarkOf(Step) = 0
    /\ ~MustFail(Step, idx)
    /\ idx' = StepDone([idx EXCEPT
                 !.stepsDone = @ \cup {<<idx.sec, Step>>},
                 !.treeFresh = IF Step = "propagation_preprocessing"
                               THEN TRUE ELSE @])
    /\ UNCHANGED <<pvars, rd, mn, asm>>

\* A statement of the body fails (an exception, or pro.run_safe ending the
\* process on a non-zero exit status): prophyle_index is left.
StepFail ==
    /\ idx.pc = "body"
    /\ MarkOf(Step) = 0
    /\ ~CannotFail(Step, idx)
    /\ idx' = [idx EXCEPT !.pc = "failed", !.failed = StageTested(idx.sec)]
    /\ UNCHANGED <<pvars, rd, mn, asm>>

\* _mark_complete(index_dir, n)
MarkComplete ==
    /\ idx.pc = "body"
    /\ MarkOf(Step) # 0
    /\ idx' = StepDone([idx EXCEPT
                 !.mt = Touched(idx.mt, MarkOf(Step)),
                 !.written = @ \cup {<<idx.sec, MarkOf(Step)>>}])
    /\ UNCHANGED <<pvars, rd, mn, asm>>

\* An input tree is modified between two invocations.
TreesTouched ==
    /\ Ended
    /\ idx.treeFresh
    /\ idx' = [idx EXCEPT !.treeFresh = FALSE, !.changed = TRUE]
    /\ UNCHANGED <<pvars, rd, mn, asm>>

IdxIdle ==
    [pc |-> "idle", sec |-> "s1", i |-> 0, recompute |-> FALSE,
     force |-> FALSE, klcp |-> FALSE, ntrees |-> 1, keep |-> FALSE,
     mt |-> [j \in 1..NStages |-> 0], treeFresh |-> FALSE, run |-> 0,
     executed |-> {}, started |-> {}, stepsDone |-> {}, written |-> {},
     failed |-> 0, checked |-> {}, changed |-> FALSE,
     prev |-> [ok |-> FALSE, failed |-> 0, force |-> FALSE, klcp |-> FALSE,
               ntrees |-> 1, keep |-> FALSE, changed |-> FALSE]]

(***************************************************************************)
(* The assignment (prophyle_assignment.py).  Node names are strings; a     *)
(* mask (bitarray) is a sequence of BOOLEAN, bit j being element j + 1.    *)
(***************************************************************************)
NoRead == [pc |-> "none"]
NoMain == [pc |-> "none"]
NoAsm == [pc |-> "none"]

\* node.name for the nodes of the trees used with the assignment:
\* ((A,B)X,C)R as <<0, 1, 1, 2, 2>> and ((C,A)X)R as <<0, 1, 2, 2>>.
NodeName == <<"R", "X", "C", "A", "B">>

ReadTrees == {<<0, 1, 1, 2, 2>>, <<0, 1, 2, 2>>}

\* TreeIndex.__init__: name_dict, kmer_count_dict (node.kmers_full) and
\* upnodes_dict.
name_dict ==
    [n \in {NodeName[v] : v \in Nodes} |-> CHOOSE v \in Nodes : NodeName[v] = n]

kmer_count_dict ==
    [n \in DOMAIN name_dict |-> IF n = "B" THEN 2 ELSE 1]

upnodes_dict ==
    [n \in DOMAIN name_dict |-> {NodeName[a] : a \in Ancestors(name_dict[n])}]

\* Mutant: the lowest common ancestor also when it is a root with one
\* child.
lca_keeps_root(noden_l) ==
    IF Len(noden_l) = 1 THEN noden_l[1]
    ELSE IF \E i \in 1..Len(noden_l) : noden_l[i] \notin DOMAIN name_dict
    THEN "KeyError"
    ELSE NodeName[LCA({name_dict[noden_l[i]] : i \in 1..Len(noden_l)})]

\* TreeIndex.lca(noden_l): the name of the lowest common ancestor, or the
\* KeyError of the name_dict lookup.
lca(noden_l) ==
    IF Len(noden_l) = 1 THEN noden_l[1]
    ELSE IF \E i \in 1..Len(noden_l) : noden_l[i] \notin DOMAIN name_dict
    THEN "KeyError"
    ELSE LET a == LCA({name_dict[noden_l[i]] : i \in 1..Len(noden_l)})
             b == IF a = Root /\ Cardinality(get_children(a)) = 1
                  THEN CHOOSE c \in get_children(a) : TRUE ELSE a
         IN  NodeName[b]

RECURSIVE SumCounts(_, _)
SumCounts(blocks, i) ==
    IF i > Len(blocks) THEN 0 ELSE blocks[i].count + SumCounts(blocks, i + 1)

\* The <blocks> field of an input line: tokens n1,n2,...:count, up to
\* MaxBlocks of them for up to MaxKmers k-mers.
NameLists == {<<"0">>, <<"X">>, <<"B">>, <<"A", "B">>}
Tokens == [names : NameLists, count : 0..MaxKmers]
Krakmers ==
    {b \in UNION {[1..m -> Tokens] : m \in 0..MaxBlocks} :
        SumCounts(b, 1) <= MaxKmers}

\* The scenarios of the specification, X:2 A:1 0:2 (E4) and A,B:2 0:3
\* (E3), the first one also with B in the place of A, a stream with an "A"
\* block between two blocks of nodes, X:1 A:1 0:3 (E2), A,B:2 A:1 0:1
\* (E5), and a stream that names the root, R,A:1 R:1.
ScenarioKrakmers ==
    { << [names |-> <<"X">>, count |-> 2], [names |-> <<"A">>, count |-> 1],
         [names |-> <<"0">>, count |-> 2] >>,
      << [names |-> <<"X">>, count |-> 2], [names |-> <<"B">>, count |-> 1],
         [names |-> <<"0">>, count |-> 2] >>,
      << [names |-> <<"A", "B">>, count |-> 2], [names |-> <<"0">>, count |-> 3] >>,
      << [names |-> <<"X">>, count |-> 1], [names |-> <<"A">>, count |-> 1],
         [names |-> <<"B">>, count |-> 1] >>,
      << [names |-> <<"X">>, count |-> 1], [names |-> <<"A">>, count |-> 1],
         [names |-> <<"0">>, count |-> 3] >>,
      << [names |-> <<"A", "B">>, count |-> 2], [names |-> <<"A">>, count |-> 1],
         [names |-> <<"0">>, count |-> 1] >>,
      << [names |-> <<"R", "A">>, count |-> 1], [names |-> <<"R">>, count |-> 1] >> }

\* Input lines: the query length and the blocks.  The query length is the
\* one the blocks imply, or one more; or it is shorter than a k-mer (by
\* one base, by two) while the blocks count one k-mer.
Lines ==
    {[qlen |-> SumCounts(b, 1) + K - 1 + d, krakmers |-> b] :
        b \in Krakmers \cup ScenarioKrakmers, d \in 0..1}
    \cup {[qlen |-> K - d, krakmers |-> <<[names |-> <<"X">>, count |-> 1]>>] :
             d \in 1..2}

\* self.krakmers.split(" "): an empty field gives one empty token.
EmptyToken == [names |-> <<>>, count |-> 0]
Split(krakmers) == IF krakmers = <<>> THEN <<EmptyToken>> ELSE krakmers

\* load_krakline, the loop over the tokens: the kmer_blocks, or the
\* exception of the first token that raises one ("".split(":") cannot be
\* unpacked into (ids, count); tree.lca may raise KeyError).
RECURSIVE LoadBlocks(_, _, _)
LoadBlocks(tokens, i, simulate_lca) ==
    IF i > Len(tokens) THEN [err |-> "none", blocks |-> <<>>]
    ELSE IF tokens[i] = EmptyToken THEN [err |-> "ValueError", blocks |-> <<>>]
    ELSE LET rnames == IF simulate_lca THEN <<lca(tokens[i].names)>>
                       ELSE tokens[i].names
             rest == LoadBlocks(tokens, i + 1, simulate_lca)
         IN  IF rnames = <<"KeyError">> THEN [err |-> "KeyError", blocks |-> <<>>]
             ELSE IF rest.err # "none" THEN rest
             ELSE [err |-> "none",
                   blocks |-> <<[names |-> rnames, count |-> tokens[i].count]>>
                              \o rest.blocks]

\* load_krakline(krakline)
load_krakline(line, simulate_lca, k) ==
    LET l == LoadBlocks(Split(line.krakmers), 1, simulate_lca)
        b_sum == SumCounts(l.blocks, 1)
    IN  IF l.err # "none" THEN l
        ELSE IF ~(line.qlen = b_sum + k - 1 \/ line.qlen < k)
        THEN [err |-> "AssertionError", blocks |-> <<>>]
        ELSE l

\* n * [b] and a | b on bitarrays of equal length.
Rep(n, b) == [i \in 1..n |-> b]
MaskOr(a, b) == [i \in 1..Len(a) |-> a[i] \/ b[i]]

NoMasks == [keys |-> <<>>, h |-> <<>>, c |-> <<>>]

\* masks_from_kmer_blocks, the loop `for rname in rname_l` of one block:
\* d_h[rname] |= v_h, or the insertion of a copy at the KeyError.
RECURSIVE AddNames(_, _, _, _, _)
AddNames(rname_l, j, v_h, v_c, d) ==
    IF j > Len(rname_l) THEN d
    ELSE LET rname == rname_l[j]
             d2 == IF rname \in DOMAIN d.h
                   THEN [d EXCEPT !.h[rname] = MaskOr(@, v_h),
                                  !.c[rname] = MaskOr(@, v_c)]
                   ELSE [keys |-> Append(d.keys, rname),
                         h |-> [n \in DOMAIN d.h \cup {rname} |->
                                  IF n = rname THEN v_h ELSE d.h[n]],
                         c |-> [n \in DOMAIN d.c \cup {rname} |->
                                  IF n = rname THEN v_c ELSE d.c[n]]]
         IN  AddNames(rname_l, j + 1, v_h, v_c, d2)

\* Mutant: the position advances only over the blocks that set bits.
NextPos_hits_only(pos, rname_l, cnt) ==
    IF rname_l # <<"0">> /\ rname_l # <<"A">> THEN pos + cnt ELSE pos

\* pos += count, for every block.
NextPos(pos, rname_l, cnt) == pos + cnt

\* Mutant: the coverage of a block ends with its last hit.
v_c_no_tail(pos, cnt, npos, k) ==
    Rep(pos, FALSE) \o Rep(cnt, TRUE) \o Rep(npos - pos - cnt + k - 1, FALSE)

\* The bitarrays v_h and v_c of one block.
v_h(pos, cnt, npos) ==
    Rep(pos, FALSE) \o Rep(cnt, TRUE) \o Rep(npos - pos - cnt, FALSE)

v_c(pos, cnt, npos, k) ==
    Rep(pos, FALSE) \o Rep(cnt + k - 1, TRUE) \o Rep(npos - pos - cnt, FALSE)

\* Mutant: only the blocks of "0" are skipped.
SetsBits_but_zero(rname_l) == rname_l # <<"0">>

\* if rname_l != ["0"] and rname_l != ["A"]
SetsBits(rname_l) == rname_l # <<"0">> /\ rname_l # <<"A">>

\* masks_from_kmer_blocks, the loop over the blocks.
RECURSIVE WalkBlocks(_, _, _, _, _, _)
WalkBlocks(blocks, i, pos, npos, k, d) ==
    IF i > Len(blocks) THEN d
    ELSE LET rname_l == blocks[i].names
             cnt == blocks[i].count
             d2 == IF SetsBits(rname_l)
                   THEN AddNames(rname_l, 1, v_h(pos, cnt, npos),
                                 v_c(pos, cnt, npos, k), d)
                   ELSE d
         IN  WalkBlocks(blocks, i + 1, NextPos(pos, rname_l, cnt), npos, k, d2)

masks_from_kmer_blocks(kmers_assigned_l, k) ==
    WalkBlocks(kmers_assigned_l, 1, 0, SumCounts(kmers_assigned_l, 1), k, NoMasks)

\* Mutant: the masks of the ancestors are not or-ed in.
find_compute_masks_no_inheritance(kmer_blocks, k) ==
    [err |-> IF \E n \in DOMAIN masks_from_kmer_blocks(kmer_blocks, k).h :
                   n \notin DOMAIN name_dict
             THEN "KeyError" ELSE "none",
     asgs |-> masks_from_kmer_blocks(kmer_blocks, k)]

\* find_compute_masks, the loop over the candidates: the masks of rname
\* with the masks of its candidate ancestors or-ed in, or the KeyError of
\* self.tree.name_dict[rname].
find_compute_masks(kmer_blocks, k) ==
    LET m == masks_from_kmer_blocks(kmer_blocks, k)
        rnames == DOMAIN m.h
        up(rname) == upnodes_dict[rname] \cap rnames
        RECURSIVE OrAll(_, _, _)
        OrAll(mask, of, S) ==
            IF S = {} THEN mask
            ELSE LET p == CHOOSE x \in S : TRUE
                 IN  OrAll(MaskOr(mask, of[p]), of, S \ {p})
    IN  IF \E n \in rnames : n \notin DOMAIN name_dict
        THEN [err |-> "KeyError", asgs |-> NoMasks]
        ELSE [err |-> "none",
              asgs |-> [keys |-> m.keys,
                        h |-> [n \in rnames |-> OrAll(m.h[n], m.h, up(n))],
                        c |-> [n \in rnames |-> OrAll(m.c[n], m.c, up(n))]]]

\* Read.__init__ in assign(): the Read object before the first line.
\* taxids are the nodes of self.tree that carry a taxid (the keys of
\* self.tree.taxid_dict): all of them, unless InitRead says otherwise.
NewRead(simulate_lca, tie_lca) ==
    [pc |-> "idle", simulate_lca |-> simulate_lca, tie_lca |-> tie_lca,
     taxids |-> DOMAIN name_dict,
     qlen |-> 0, krakmers |-> <<>>, kmer_blocks |-> <<>>,
     raw |-> NoMasks, asgs |-> NoMasks, vals |-> <<>>,
     max_rnames |-> <<>>, measure |-> "h1", form |-> "sam",
     out |-> <<>>, err |-> "none"]

\* An exception leaves process_krakline and assign(): nothing catches it.
Raise(rec, e) == [rec EXCEPT !.pc = "crashed", !.err = e]

\* assign(): `for x in inp_fo` takes the next line after process_krakline
\* returned.  rd.out holds the records printed for the current line; the
\* attributes of the previous line are all assigned again before they are
\* read, and are dropped here.
NextLine ==
    /\ rd.pc = "printed"
    /\ rd' = [NewRead(rd.simulate_lca, rd.tie_lca) EXCEPT !.taxids = rd.taxids]
    /\ UNCHANGED <<pvars, idx, mn, asm>>

\* process_krakline(krakline, form, measure) as assign() calls it for the
\* line taken from the input: load_krakline, then self.compute_masks().
\* Read defines find_compute_masks and no compute_masks, so the call raises
\* AttributeError; filter_assignments and print_assignments are not
\* reached and nothing is printed.
ProcessKrakline(line, form, measure) ==
    /\ rd.pc = "idle"
    /\ LET l == load_krakline(line, rd.simulate_lca, K)
           rec == [rd EXCEPT !.qlen = line.qlen, !.krakmers = line.krakmers,
                             !.kmer_blocks = l.blocks]
       IN  rd' = Raise(rec, IF l.err # "none" THEN l.err ELSE "AttributeError")
    /\ UNCHANGED <<pvars, idx, mn, asm>>

\* load_krakline(krakline), called on a line by itself.
LoadKrakline(line) ==
    /\ rd.pc = "idle"
    /\ LET l == load_krakline(line, rd.simulate_lca, K)
           rec == [rd EXCEPT !.qlen = line.qlen, !.krakmers = line.krakmers,
                             !.kmer_blocks = l.blocks]
       IN  rd' = IF l.err # "none" THEN Raise(rec, l.err)
                 ELSE [rec EXCEPT !.pc = "loaded"]
    /\ UNCHANGED <<pvars, idx, mn, asm>>

\* find_compute_masks()
FindComputeMasks ==
    /\ rd.pc = "loaded"
    /\ LET m == find_compute_masks(rd.kmer_blocks, K)
           rec == [rd EXCEPT !.raw = masks_from_kmer_blocks(rd.kmer_blocks, K)]
       IN  rd' = IF m.err # "none" THEN Raise(rec, m.err)
                 ELSE [rec EXCEPT !.pc = "masked", !.asgs = m.asgs]
    /\ UNCHANGED <<pvars, idx, mn, asm>>

\* bitarray.count()
RECURSIVE PopCount(_)
PopCount(mask) ==
    IF mask = <<>> THEN 0
    ELSE (IF Head(mask) THEN 1 ELSE 0) + PopCount(Tail(mask))

\* Python values of the fields of an assignment: an int, a quotient a / b
\* (a float), a bitarray, None, and "unset" for a key the dictionary does
\* not hold.
PyInt(n) == <<"int", n>>
PyFloat(a, b) == <<"float", a, b>>
PyBits(m) == <<"bitarray", m>>
None == <<"None">>
Unset == <<"unset">>

\* Quotients are compared as the numbers they denote (divisors are > 0).
Gt(x, y) == x[1] * y[2] > y[1] * x[2]
Eq(x, y) == x[1] * y[2] = y[1] * x[2]

Measures == {"h1", "h2", "c1", "c2"}

\* asg[measure] as a quotient.
MeasureOf(asg, measure) ==
    CASE measure = "h1" -> <<asg.h1[2], 1>>
      [] measure = "h2" -> <<asg.h2[2], asg.h2[3]>>
      [] measure = "c1" -> <<asg.c1[2], 1>>
      [] measure = "c2" -> <<asg.c2[2], asg.c2[3]>>

\* filter_assignments: the characteristics of candidate rname.  "unset"
\* stands for a key the dictionary does not hold.
Characteristics(rname, asgs, qlen, k) ==
    LET hit == PopCount(asgs.h[rname])
        cov == PopCount(asgs.c[rname])
    IN  [h1 |-> PyInt(hit), hf |-> PyFloat(hit, qlen - k + 1),
         h2 |-> PyFloat(hit, kmer_count_dict[rname]),
         c1 |-> PyInt(cov), cf |-> PyFloat(cov, qlen),
         c2 |-> PyFloat(cov, kmer_count_dict[rname]),
         ln |-> PyInt(qlen), ii |-> Unset, is |-> Unset,
         hitmask |-> PyBits(asgs.h[rname]), covmask |-> PyBits(asgs.c[rname])]

\* A division of filter_assignments has a zero divisor.
ZeroDivision(rname, qlen, k) ==
    qlen - k + 1 = 0 \/ kmer_count_dict[rname] = 0 \/ qlen = 0

\* Mutant: a candidate that equals the maximum is not recorded.
UpdateWinners_no_ties(w, rname, val) ==
    IF Gt(val, w.max_val) THEN [max_val |-> val, max_rnames |-> <<rname>>]
    ELSE w

\* filter_assignments, step 4: update winners.
UpdateWinners(w, rname, val) ==
    IF Gt(val, w.max_val) THEN [max_val |-> val, max_rnames |-> <<rname>>]
    ELSE IF Eq(val, w.max_val)
    THEN [w EXCEPT !.max_rnames = Append(@, rname)]
    ELSE w

\* filter_assignments, the loop `for rname in self.asgs` (in the order of
\* insertion), from self.max_val = 0 and self.max_rnames = [].
RECURSIVE Winners(_, _, _, _)
Winners(keys, i, vals, measure) ==
    IF i = 0 THEN [max_val |-> <<0, 1>>, max_rnames |-> <<>>]
    ELSE UpdateWinners(Winners(keys, i - 1, vals, measure), keys[i],
                       MeasureOf(vals[keys[i]], measure))

\* The index of rname in the list l (0: not in l).
IndexOf(l, rname) ==
    IF \E i \in 1..Len(l) : l[i] = rname
    THEN CHOOSE i \in 1..Len(l) : l[i] = rname ELSE 0

\* filter_assignments(measure)
FilterAssignments(measure) ==
    /\ rd.pc = "masked"
    /\ LET keys == rd.asgs.keys
           names == DOMAIN rd.asgs.h
           vals == [n \in names |-> Characteristics(n, rd.asgs, rd.qlen, K)]
           w == Winners(keys, Len(keys), vals, measure)
           ranked == [n \in names |->
                        IF IndexOf(w.max_rnames, n) # 0
                        THEN [vals[n] EXCEPT !.ii = PyInt(IndexOf(w.max_rnames, n)),
                                             !.is = PyInt(Len(w.max_rnames))]
                        ELSE vals[n]]
       IN  rd' = IF \E n \in names : ZeroDivision(n, rd.qlen, K)
                 THEN Raise([rd EXCEPT !.measure = measure], "ZeroDivisionError")
                 ELSE [rd EXCEPT !.pc = "filtered", !.measure = measure,
                                 !.vals = ranked, !.max_rnames = w.max_rnames]
    /\ UNCHANGED <<pvars, idx, mn, asm>>

\* cigar_from_mask(mask): the runs of the mask as <<length, op>>, "=" for
\* set bits and "X" for the others.
RECURSIVE cigar_from_mask(_)
cigar_from_mask(mask) ==
    IF mask = <<>> THEN <<>>
    ELSE LET rest == cigar_from_mask(Tail(mask))
             op == IF Head(mask) THEN "=" ELSE "X"
         IN  IF rest # <<>> /\ rest[1][2] = op
             THEN <<<<rest[1][1] + 1, op>>>> \o Tail(rest)
             ELSE <<<<1, op>>>> \o rest

\* `if x:` for a field of an assignment; the lookup of a key that is not
\* set raises KeyError.
Truthy(x) ==
    CASE x[1] = "int" -> x[2] # 0
      [] x[1] = "float" -> x[2] # 0
      [] x[1] = "cigar" -> x[2] # <<>>
      [] OTHER -> FALSE

Absent == <<"absent">>
SamTags == {"h1", "h2", "hf", "c1", "c2", "cf", "ln", "ii", "is", "hitcigar"}

\* print_sam_line(rname, ""): the record, or KeyError.
print_sam_line(rname, asg) ==
    IF rname = "None"
    THEN [err |-> "none",
          rec |-> [fmt |-> "sam", flag |-> 4, rname |-> "*", cigar |-> <<"*">>,
                   tags |-> [t \in SamTags |-> Absent]]]
    ELSE IF \E t \in SamTags : asg[t][1] = "unset"
    THEN [err |-> "KeyError", rec |-> <<>>]
    ELSE [err |-> "none",
          rec |-> [fmt |-> "sam", flag |-> 0, rname |-> rname,
                   cigar |-> IF Truthy(asg.covcigar) THEN asg.covcigar ELSE <<"*">>,
                   tags |-> [t \in SamTags |->
                               IF Truthy(asg[t]) THEN asg[t] ELSE Absent]]]

\* TreeIndex.__init__: taxid_dict holds node.taxid of the nodes that have
\* the attribute; and the -D option.
taxid_dict == [n \in rd.taxids |-> 100 + name_dict[n]]
dont_translate_blocks == FALSE

\* print_kraken_line in simulate_lca mode: the per-position taxids of the
\* blocks, run-length encoded.
RECURSIVE lca_rnames(_, _)
lca_rnames(kmer_blocks, i) ==
    IF i > Len(kmer_blocks) THEN <<>>
    ELSE LET n == kmer_blocks[i].names[1]
             taxid == IF n = "A" \/ n = "0" \/ dont_translate_blocks
                      THEN <<"str", n>> ELSE PyInt(taxid_dict[n])
         IN  [j \in 1..kmer_blocks[i].count |-> taxid]
                \o lca_rnames(kmer_blocks, i + 1)

RECURSIVE RunLengths(_)
RunLengths(l) ==
    IF l = <<>> THEN <<>>
    ELSE LET rest == RunLengths(Tail(l))
         IN  IF rest # <<>> /\ rest[1][1] = Head(l)
             THEN <<<<Head(l), rest[1][2] + 1>>>> \o Tail(rest)
             ELSE <<<<Head(l), 1>>>> \o rest

\* print_kraken_line(rname): the record, or KeyError of a taxid lookup.
print_kraken_line(rname, rec) ==
    LET stat == IF rname = "None" THEN "U" ELSE "C"
        ref == IF rname = "None" THEN "0" ELSE rname
    IN  IF rec.simulate_lca
        THEN IF \/ \E i \in 1..Len(rec.kmer_blocks) :
                     LET n == rec.kmer_blocks[i].names[1]
                     IN  n \notin {"A", "0"} /\ ~dont_translate_blocks
                            /\ n \notin DOMAIN taxid_dict
                \/ stat = "C" /\ ref \notin DOMAIN taxid_dict
             THEN [err |-> "KeyError", rec |-> <<>>]
             ELSE [err |-> "none",
                   rec |-> [fmt |-> "kraken", stat |-> stat,
                            ref |-> IF stat = "C" THEN PyInt(taxid_dict[ref])
                                    ELSE <<"str", "0">>,
                            qlen |-> rec.qlen,
                            blocks |-> RunLengths(lca_rnames(rec.kmer_blocks, 1))]]
        ELSE [err |-> "none",
              rec |-> [fmt |-> "kraken", stat |-> stat, ref |-> <<"str", ref>>,
                       qlen |-> rec.qlen, blocks |-> rec.krakmers]]

\* Mutant: the tie is resolved whenever tie_lca is on.
TieCollapses_always(tie_lca, winners) == tie_lca /\ Len(winners) >= 1

\* print_assignments: `if self.tie_lca:` ... `if len(winners) > 1:`
TieCollapses(tie_lca, winners) == tie_lca /\ Len(winners) > 1

\* print_assignments: the assignment created for the LCA of tied winners,
\* asg = self.asgs[lca] = {} with the fields set after it.
LcaAssignment(first_winner, measure) ==
    LET h == measure \in {"h1", "h2"}
    IN  [covmask |-> None, hitmask |-> None,
         h1 |-> IF h THEN first_winner.h1 ELSE None,
         h2 |-> IF h THEN first_winner.h2 ELSE None,
         hf |-> IF h THEN first_winner.hf ELSE None,
         c1 |-> IF h THEN None ELSE first_winner.c1,
         c2 |-> IF h THEN None ELSE first_winner.c2,
         cf |-> IF h THEN None ELSE first_winner.cf,
         ln |-> Unset, ii |-> Unset, is |-> Unset]

\* print_assignments: asg['covcigar'] and asg['hitcigar'] of a winner.
WithCigars(asg) ==
    [t \in DOMAIN asg \cup {"covcigar", "hitcigar"} |->
        CASE t = "covcigar" ->
                 IF asg.covmask = None THEN None
                 ELSE <<"cigar", cigar_from_mask(asg.covmask[2])>>
          [] t = "hitcigar" ->
                 IF asg.hitmask = None THEN None
                 ELSE <<"cigar", cigar_from_mask(asg.hitmask[2])>>
          [] OTHER -> asg[t]]

\* print_assignments, the loop `for rname in winners`: the records printed
\* and the exception that ended the loop, if any.
RECURSIVE PrintWinners(_, _, _, _, _)
PrintWinners(winners, i, asgs, form, rec) ==
    IF i > Len(winners) THEN [err |-> "none", out |-> <<>>]
    ELSE LET line == IF form = "sam"
                     THEN print_sam_line(winners[i], WithCigars(asgs[winners[i]]))
                     ELSE print_kraken_line(winners[i], rec)
             rest == PrintWinners(winners, i + 1, asgs, form, rec)
         IN  IF line.err # "none" THEN [err |-> line.err, out |-> <<>>]
             ELSE [err |-> rest.err, out |-> <<line.rec>> \o rest.out]

\* print_assignments(form, measure) with the given tie_lca.
print_assignments(rec, form, measure, tie_lca) ==
    LET winners == rec.max_rnames
    IN  IF Len(winners) = 0
        THEN LET line == IF form = "sam" THEN print_sam_line("None", <<>>)
                         ELSE print_kraken_line("None", rec)
             IN  [err |-> line.err,
                  out |-> IF line.err = "none" THEN <<line.rec>> ELSE <<>>,
                  vals |-> rec.vals]
        ELSE IF TieCollapses(tie_lca, winners)
        THEN LET l == lca(winners)
                 asgs == [n \in DOMAIN rec.vals \cup {l} |->
                            IF n = l
                            THEN LcaAssignment(rec.vals[winners[1]], measure)
                            ELSE rec.vals[n]]
                 p == PrintWinners(<<l>>, 1, asgs, form, rec)
             IN  [err |-> p.err, out |-> p.out, vals |-> asgs]
        ELSE LET p == PrintWinners(winners, 1, rec.vals, form, rec)
             IN  [err |-> p.err, out |-> p.out, vals |-> rec.vals]

PrintAssignments(form) ==
    /\ rd.pc = "filtered"
    /\ LET p == print_assignments(rd, form, rd.measure, rd.tie_lca)
           rec == [rd EXCEPT !.form = form, !.out = p.out, !.vals = p.vals]
       IN  rd' = IF p.err # "none" THEN Raise(rec, p.err)
                 ELSE [rec EXCEPT !.pc = "printed"]
    /\ UNCHANGED <<pvars, idx, mn, asm>>

\* TreeIndex.__init__ and build_index: the Makefile of the minimal subtree
\* in an empty propagation directory, make started by _propagate.
InitTree(m, pool, j) ==
    /\ \E p \in LoadedTrees(m) : parent = minimal_subtree(p)
    /\ seq \in [Leaves -> pool]
    /\ threads \in j
    /\ fa = [f \in FileNames |-> NoFile]
    /\ count = [v \in Nodes |-> -1]
    /\ mark = [r \in Rules |-> "absent"]
    /\ job = [r \in Rules |-> 0]
    /\ make = "running"

InitProp ==
    /\ InitTree(MaxNodes, SeqPool, {MaxJobs})
    /\ idx = IdxIdle /\ rd = NoRead /\ mn = NoMain /\ asm = NoAsm

NextProp ==
    \/ \E r \in Rules : Start(r)
    \/ \E r \in Rules : CmdOk(r)
    \/ \E r \in Rules : Touch(r)
    \/ MakeExit

SpecProp == InitProp /\ [][NextProp]_vars

InitMake ==
    /\ InitTree(MaxMakeNodes, {<<"A", "C", "G", "T">>}, 1..MaxJobs)
    /\ idx = IdxIdle
    /\ rd = NoRead /\ mn = NoMain /\ asm = NoAsm

NextMake ==
    \/ \E r \in Rules : Start(r)
    \/ \E r \in Rules : CmdOk(r)
    \/ \E r \in Rules : Touch(r)
    \/ MakeExit
    \/ \E r \in Rules : CmdFail(r)
    \/ Interrupt
    \/ MakeRun
    \/ \E l \in Nodes : LibUpdate(l)
    \/ Clean

SpecMake == InitMake /\ [][NextMake]_vars

\* The tree of the index under SpecIndex: a root with two leaves, nothing
\* propagated.
InitIndex ==
    /\ InitTree(3, {<<"A", "C", "G", "T">>}, {1})
    /\ Cardinality(Nodes) = 3
    /\ idx = IdxIdle
    /\ rd = NoRead /\ mn = NoMain /\ asm = NoAsm

NextIndex ==
    \/ \E force \in BOOLEAN : \E klcp \in BOOLEAN : \E ntrees \in 1..2 :
          \E keep \in BOOLEAN : IndexBegin(force, klcp, ntrees, keep)
    \/ Check
    \/ StepOk
    \/ StepFail
    \/ MarkComplete
    \/ TreesTouched

SpecIndex == InitIndex /\ [][NextIndex]_vars


(***************************************************************************)
(* Propagation: the residual sets after a complete run.                    *)
(***************************************************************************)
\* make has made `all`.
Done == UpToDate(RootLink)

\* Reading a file follows the root's symbolic link to {root_nonred}.
ReadFile(f) == IF fa[f].st = "link" THEN fa[nonreduced_fasta_fn(f[1])] ELSE fa[f]

\* R(v): the k-mers of <v>.reduced.fa.  K(l): the canonical k-mers of leaf l.
R(v) == ReadFile(reduced_fasta_fn(v)).kmers
LeafKmers(l) == extract_canonical(seq[l], K)
AllKmers == UNION {LeafKmers(l) : l \in Leaves}
Emitted == \A v \in Nodes : ReadFile(reduced_fasta_fn(v)).st = "whole"
LeavesWith(x) == {l \in Leaves : x \in LeafKmers(l)}

RECURSIVE SumOver(_, _)
SumOver(S, f) ==
    IF S = {} THEN 0
    ELSE LET v == CHOOSE u \in S : TRUE
         IN  Cardinality(f[v]) + SumOver(S \ {v}, f)

SumR == SumOver(Nodes, [v \in Nodes |-> R(v)])
SumK == SumOver(Leaves, [l \in Leaves |-> LeafKmers(l)])

\* C1 as stated: after propagation a k-mer x of some leaf is in R(v) iff v
\* is the lowest common ancestor of the leaves whose sets contain x.
C1_PartitionByLCA ==
    Done => \A x \in AllKmers : \A v \in Nodes :
                (x \in R(v)) <=> (v = LCA(LeavesWith(x)))

\* C1 amended: after propagation x is in R(v) iff every leaf below v holds
\* x and v is the highest such node on its path to the root (v is the root,
\* or some leaf below v's parent lacks x).
C1_HighestCommonNode ==
    Done => /\ Emitted
            /\ \A x \in AllKmers : \A v \in Nodes :
                 (x \in R(v)) <=>
                    /\ \A l \in LeavesBelow(v) : x \in LeafKmers(l)
                    /\ \/ v = Root
                       \/ \E l \in LeavesBelow(parent[v]) : x \notin LeafKmers(l)

\* A complete run in which some k-mer is left in the residual sets of two
\* nodes (it is missing from a leaf below the LCA of the leaves holding it).
C1_Witness ==
    /\ Done
    /\ \E x \in AllKmers : \E v \in Nodes : \E w \in Nodes :
          v # w /\ x \in R(v) /\ x \in R(w) /\ LCA(LeavesWith(x)) \notin {v, w}

\* C2: after propagation the residual sets of a node and of each of its
\* strict ancestors are disjoint.
C2_AncestorDisjoint ==
    Done => /\ Emitted
            /\ \A w \in Nodes : \A v \in Ancestors(w) : R(v) \cap R(w) = {}

\* A complete run on a tree of depth two where an ancestor and a descendant
\* both keep k-mers.
C2_Witness ==
    /\ Done
    /\ \E w \in Nodes : \E v \in Ancestors(w) :
          /\ Ancestors(v) # {}
          /\ R(v) # {} /\ R(w) # {}
          /\ \E u \in Ancestors(w) : R(u) = {}

\* C3: after propagation the union of the residual sets is the union of the
\* leaf sets.
C3_UnionPreserved ==
    Done => UNION {R(v) : v \in Nodes} = AllKmers

\* A complete run over at least two leaves with different k-mer sets.
C3_Witness ==
    /\ Done
    /\ \E l \in Leaves : \E m \in Leaves : LeafKmers(l) # LeafKmers(m)
    /\ \E v \in Nodes : ~is_leaf(v) /\ R(v) # {}

\* C4 as stated: the sizes of the residual sets add up to the number of
\* distinct k-mers of the leaves.
C4_Conservation ==
    Done => SumR = Cardinality(AllKmers)

\* C4 amended: the sizes add up to at least the number of distinct k-mers
\* and at most the sum of the leaf set sizes; they add up to exactly the
\* number of distinct k-mers iff no k-mer is left in two residual sets.
C4_CountBounds ==
    Done => /\ Cardinality(AllKmers) <= SumR
            /\ SumR <= SumK
            /\ (SumR = Cardinality(AllKmers)) <=>
                  (\A v \in Nodes : \A w \in Nodes : v # w => R(v) \cap R(w) = {})

\* A complete run where the sizes add up to more than the distinct k-mers.
C4_Witness == Done /\ SumR > Cardinality(AllKmers)

\* Scenario E1: the tree ((A,B)X,C)R with R = 1, X = 2, C = 3, A = 4, B = 5
\* and the leaf sequences A = ACGT, B = ACGA, C = TTTT, propagated.
E1_Done ==
    /\ parent = <<0, 1, 1, 2, 2>>
    /\ seq[4] = <<"A", "C", "G", "T">>
    /\ seq[5] = <<"A", "C", "G", "A">>
    /\ seq[3] = <<"T", "T", "T", "T">>
    /\ Done

ACG == <<"A", "C", "G">>
CGT == <<"C", "G", "T">>
CGA == <<"C", "G", "A">>
TTT == <<"T", "T", "T">>
AAA == <<"A", "A", "A">>

\* C5 as stated: in scenario E1 K(A) = {ACG,CGT}, K(B) = {ACG,CGA},
\* K(C) = {TTT} and R(X) = {ACG}, R(A) = {CGT}, R(B) = {CGA}, R(C) = {TTT},
\* R(R) = {}.
C5_ScenarioE1 ==
    E1_Done => /\ fa[nonreduced_fasta_fn(4)].kmers = {ACG, CGT}
               /\ fa[nonreduced_fasta_fn(5)].kmers = {ACG, CGA}
               /\ fa[nonreduced_fasta_fn(3)].kmers = {TTT}
               /\ R(2) = {ACG} /\ R(4) = {CGT} /\ R(5) = {CGA}
               /\ R(3) = {TTT} /\ R(1) = {}

\* C5 amended: in scenario E1 the canonical sets are K(A) = {ACG} (CGT is
\* the reverse complement of ACG), K(B) = {ACG,CGA}, K(C) = {AAA} (the
\* reverse complement of TTT), and R(X) = {ACG}, R(A) = {}, R(B) = {CGA},
\* R(C) = {AAA}, R(R) = {}.
C5_ScenarioE1Canonical ==
    E1_Done => /\ fa[nonreduced_fasta_fn(4)].kmers = {ACG}
               /\ fa[nonreduced_fasta_fn(5)].kmers = {ACG, CGA}
               /\ fa[nonreduced_fasta_fn(3)].kmers = {AAA}
               /\ count[2] = 1 /\ count[1] = 0
               /\ R(2) = {ACG} /\ R(4) = {} /\ R(5) = {CGA}
               /\ R(3) = {AAA} /\ R(1) = {}

C5_Witness == E1_Done /\ make = "done"


(***************************************************************************)
(* Scheduling and failures of the propagation (SpecMake).                  *)
(***************************************************************************)
\* C6: while the recipe of an internal node runs, the full FASTA of every
\* child is completely written, its marker is up to date and the child's
\* own recipe is not running.
C6_ForkJoin ==
    \A v \in Nodes :
        (~is_leaf(v) /\ Running(v)) =>
            \A c \in get_children(v) :
                /\ fa[nonreduced_fasta_fn(c)].st = "whole"
                /\ mark[c] = "fresh"
                /\ ~Running(c)

\* The assembler of a node with two children runs under make -j 2 or more,
\* in a run that rebuilds it (its children's reduced files exist already).
C6_Witness ==
    \E v \in Nodes :
        /\ Cardinality(get_children(v)) >= 2
        /\ Running(v) /\ Line(v) = "cmd"
        /\ threads >= 2
        /\ mark[v] = "stale"

\* C7 as stated: a marker exists only next to a completely written FASTA;
\* a partially written FASTA is never accompanied by its marker.
C7_NoMarkerOnPartial ==
    \A v \in Nodes :
        /\ mark[v] # "absent" => fa[nonreduced_fasta_fn(v)].st = "whole"
        /\ fa[nonreduced_fasta_fn(v)].st = "partial" => mark[v] = "absent"

\* C7 amended: a marker that is up to date exists only next to a completely
\* written FASTA, and a marker of any age only where the command has once
\* completed (the file exists); a stale marker may stay next to a file that
\* is being rewritten.
C7_FreshMarkerMeansWhole ==
    /\ \A v \in Nodes :
          /\ mark[v] = "fresh" => fa[nonreduced_fasta_fn(v)].st = "whole"
          /\ mark[v] # "absent" => fa[nonreduced_fasta_fn(v)].st # "absent"
    /\ mark[RootLink] # "absent" => fa[reduced_fasta_fn(Root)].st = "link"

\* After an interrupt or a failed command: a partially written FASTA beside
\* the stale marker of an earlier run.
C7_Witness ==
    /\ make \in {"interrupted", "error"}
    /\ \E v \in Nodes :
          fa[nonreduced_fasta_fn(v)].st = "partial" /\ mark[v] = "stale"

\* SpecRead: the methods of Read called on every line in the order of
\* process_krakline (load_krakline, find_compute_masks, filter_assignments,
\* print_assignments), each with any measure and output format.
InitRead ==
    /\ InitTree(Len(NodeName), {<<"A", "C", "G", "T">>}, {1})
    /\ parent \in ReadTrees
    /\ idx = IdxIdle /\ mn = NoMain /\ asm = NoAsm
    /\ \E simulate_lca \in BOOLEAN : \E tie_lca \in BOOLEAN :
          \E taxids \in {DOMAIN name_dict, {}} :
              rd = [NewRead(simulate_lca, tie_lca) EXCEPT !.taxids = taxids]

NextRead ==
    \/ \E line \in Lines : LoadKrakline(line)
    \/ FindComputeMasks
    \/ \E measure \in Measures : FilterAssignments(measure)
    \/ \E form \in {"sam", "kraken"} : PrintAssignments(form)
    \/ NextLine

SpecRead == InitRead /\ [][NextRead]_vars

\* SpecAssign: assign() as written, process_krakline on the lines of the
\* input.  No call of process_krakline returns, so the loop of assign()
\* never takes a second line.
NextAssign ==
    \E line \in Lines, form \in {"sam", "kraken"}, measure \in Measures :
        ProcessKrakline(line, form, measure)

SpecAssign == InitRead /\ [][NextAssign]_vars

(***************************************************************************)
(* main() of prophyle_assignment.py: assign() inside try, the handlers of  *)
(* BrokenPipeError and KeyboardInterrupt, and the finally clause.          *)
(***************************************************************************)
\* The process when main() calls assign(): stdout and stderr are open, buf
\* says that sys.stdout holds text not yet written to the pipe, hdr counts
\* the lines of the SAM header printed, exc is the exception that is
\* propagating, caught the exception whose handler was entered, event the
\* cancellation that has arrived (at most one per run) and status the exit
\* status (-1 while the process runs).
NewMain(form) ==
    [pc |-> "assign", form |-> form, hdr |-> 0, buf |-> FALSE,
     stdout |-> "open", stderr |-> "open", pipe |-> "open",
     event |-> "none", exc |-> "none", caught |-> "none", status |-> -1]

\* print_sam_header: @PG, @HD and one @SQ line per node.
HeaderLines == 2 + Cardinality(Nodes)
HeaderDone == mn.form = "kraken" \/ mn.hdr = HeaderLines

\* Exception e is raised inside the try block of main(): the handler of
\* BrokenPipeError or KeyboardInterrupt is entered; any other exception
\* goes through the finally clause.
Raised(m, e) ==
    [m EXCEPT !.exc = e,
              !.caught = IF e \in {"BrokenPipeError", "KeyboardInterrupt"}
                         THEN e ELSE @,
              !.pc = CASE e = "BrokenPipeError" -> "bp_close_stderr"
                       [] e = "KeyboardInterrupt" -> "ki_message"
                       [] OTHER -> "finally_stdout"]

\* The reader of the output closes the pipe.
PipeCloses ==
    /\ mn.pc = "assign" /\ mn.event = "none"
    /\ mn' = [mn EXCEPT !.event = "pipe", !.pipe = "broken"]
    /\ UNCHANGED <<pvars, idx, rd, asm>>

\* SIGINT arrives while assign() runs.
KeyboardInterrupt ==
    /\ mn.pc = "assign" /\ mn.event = "none"
    /\ mn' = Raised([mn EXCEPT !.event = "interrupt"], "KeyboardInterrupt")
    /\ UNCHANGED <<pvars, idx, rd, asm>>

\* One print of print_sam_header.  The text goes to the buffer of
\* sys.stdout, which is written to the pipe by this print or later; writing
\* to a broken pipe raises BrokenPipeError.
PrintSamHeaderLine ==
    /\ mn.pc = "assign" /\ mn.form = "sam" /\ mn.hdr < HeaderLines
    /\ \E written \in BOOLEAN :
          mn' = IF written /\ mn.pipe = "broken"
                THEN Raised([mn EXCEPT !.buf = TRUE], "BrokenPipeError")
                ELSE [mn EXCEPT !.hdr = @ + 1, !.buf = ~written]
    /\ UNCHANGED <<pvars, idx, rd, asm>>

\* assign(): read.process_krakline(x, form=form, measure=measure) for the
\* next line of the input.
MainProcessKrakline(line, measure) ==
    /\ mn.pc = "assign" /\ HeaderDone
    /\ ProcessKrakline(line, mn.form, measure)

\* The exception of process_krakline leaves assign().
AssignRaises ==
    /\ mn.pc = "assign" /\ rd.pc = "crashed"
    /\ mn' = Raised(mn, rd.err)
    /\ UNCHANGED <<pvars, idx, rd, asm>>

\* The input has no line: assign() returns.
InputEnds ==
    /\ mn.pc = "assign" /\ HeaderDone /\ rd.pc = "idle"
    /\ mn' = [mn EXCEPT !.pc = "finally_stdout"]
    /\ UNCHANGED <<pvars, idx, rd, asm>>

\* except BrokenPipeError: sys.stderr.close(); sys.stdout.close(); exit(0).
\* close() flushes the buffer, which raises BrokenPipeError again if text
\* is left in it; the file is closed in both cases.
ExceptBrokenPipe ==
    /\ mn.pc \in {"bp_close_stderr", "bp_close_stdout", "bp_exit"}
    /\ mn' = CASE mn.pc = "bp_close_stderr" ->
                     [mn EXCEPT !.stderr = "closed", !.pc = "bp_close_stdout"]
                [] mn.pc = "bp_close_stdout" ->
                     IF mn.buf /\ mn.pipe = "broken"
                     THEN [mn EXCEPT !.stdout = "closed",
                                     !.exc = "BrokenPipeError",
                                     !.pc = "finally_stdout"]
                     ELSE [mn EXCEPT !.stdout = "closed", !.buf = FALSE,
                                     !.pc = "bp_exit"]
                [] mn.pc = "bp_exit" ->
                     [mn EXCEPT !.exc = "SystemExit(0)", !.pc = "finally_stdout"]
    /\ UNCHANGED <<pvars, idx, rd, asm>>

\* except KeyboardInterrupt: pro.message(...); pro.close_log(); exit(1).
ExceptKeyboardInterrupt ==
    /\ mn.pc \in {"ki_message", "ki_exit"}
    /\ mn' = CASE mn.pc = "ki_message" -> [mn EXCEPT !.pc = "ki_exit"]
                [] mn.pc = "ki_exit" ->
                     [mn EXCEPT !.exc = "SystemExit(1)", !.pc = "finally_stdout"]
    /\ UNCHANGED <<pvars, idx, rd, asm>>

\* finally: sys.stdout.flush(); sys.stderr.flush().  flush() of a closed
\* file raises ValueError, flush() of text to a broken pipe raises
\* BrokenPipeError; an exception raised here replaces the propagating one
\* and skips the rest of the clause.
Finally ==
    /\ mn.pc \in {"finally_stdout", "finally_stderr"}
    /\ mn' = CASE mn.pc = "finally_stdout" ->
                     IF mn.stdout = "closed"
                     THEN [mn EXCEPT !.exc = "ValueError", !.pc = "exit"]
                     ELSE IF mn.buf /\ mn.pipe = "broken"
                     THEN [mn EXCEPT !.exc = "BrokenPipeError", !.pc = "exit"]
                     ELSE [mn EXCEPT !.buf = FALSE, !.pc = "finally_stderr"]
                [] mn.pc = "finally_stderr" ->
                     IF mn.stderr = "closed"
                     THEN [mn EXCEPT !.exc = "ValueError", !.pc = "exit"]
                     ELSE [mn EXCEPT !.pc = "exit"]
    /\ UNCHANGED <<pvars, idx, rd, asm>>

\* The process ends: with the code of SystemExit, with 0 after a return of
\* main(), with 1 and a traceback for any other exception.
Exit ==
    /\ mn.pc = "exit"
    /\ mn' = [mn EXCEPT !.pc = "exited",
                        !.status = CASE mn.exc \in {"none", "SystemExit(0)"} -> 0
                                     [] OTHER -> 1]
    /\ UNCHANGED <<pvars, idx, rd, asm>>

\* SpecMain: prophyle_assignment.py from the call of assign() to the end
\* of the process.
InitMain ==
    /\ InitTree(Len(NodeName), {<<"A", "C", "G", "T">>}, {1})
    /\ parent \in ReadTrees
    /\ idx = IdxIdle /\ asm = NoAsm
    /\ \E simulate_lca \in BOOLEAN : \E tie_lca \in BOOLEAN :
          rd = NewRead(simulate_lca, tie_lca)
    /\ \E form \in {"sam", "kraken"} : mn = NewMain(form)

NextMain ==
    \/ PipeCloses
    \/ KeyboardInterrupt
    \/ PrintSamHeaderLine
    \/ \E line \in Lines, measure \in Measures : MainProcessKrakline(line, measure)
    \/ AssignRaises
    \/ InputEnds
    \/ ExceptBrokenPipe
    \/ ExceptKeyboardInterrupt
    \/ Finally
    \/ Exit

SpecMain == InitMain /\ [][NextMain]_vars

(***************************************************************************)
(* set_to_fasta(fasta_fn, set_of_kmers, assemble=True) of                  *)
(* python_variant/metag.py: the k-mers of a set written as contigs.        *)
(* asm.set is set_of_kmers, asm.contig the contig being extended, asm.out  *)
(* the contigs written; asm.log records, for every k-mer taken out of the  *)
(* set and for every contig written, the set and the contig before and the *)
(* number of bases that could extend the contig.                           *)
(***************************************************************************)
MaxAsmKmers == 3     \* k-mers of the set passed to set_to_fasta
AsmK == 2

AsmKmerPool == [1..AsmK -> dna_alphabet]
AsmInputs == {S \in SUBSET AsmKmerPool : Cardinality(S) <= MaxAsmKmers}

NewAsm(S) ==
    [pc |-> "call", input |-> S, set |-> S, k |-> 0, contig |-> <<>>,
     out |-> <<>>, log |-> <<>>]

\* min(set_of_kmers)
MinKmer(S) == CHOOSE x \in S : \A y \in S : x = y \/ StrLess(x, y)

\* set_of_kmers.remove(kmer), and of its reverse complement if it differs.
Without(S, kmer) == S \ {kmer, reverse_complement(kmer)}

\* "".join(contig[-k+1:]+[right_ext]); contig[-0:] is the whole contig.
RightKmer(contig, k, right_ext) ==
    Append(IF k = 1 THEN contig
           ELSE SubSeq(contig, Len(contig) - k + 2, Len(contig)), right_ext)

\* Mutant: the contig is extended only when one base fits.
FirstExt_unique(contig, k, S) ==
    LET exts == <<"A", "C", "G", "T">>
        fit == {i \in 1..4 : RightKmer(contig, k, exts[i]) \in S}
    IN  IF Cardinality(fit) # 1 THEN "" ELSE exts[CHOOSE i \in fit : TRUE]

\* for right_ext in ["A","C","G","T"]: the first base whose k-mer is in
\* the set ("": none).
FirstExt(contig, k, S) ==
    LET exts == <<"A", "C", "G", "T">>
        fit == {i \in 1..4 : RightKmer(contig, k, exts[i]) \in S}
    IN  IF fit = {} THEN ""
        ELSE exts[CHOOSE i \in fit : \A j \in fit : i <= j]

\* set_of_kmers|=set([reverse_complement(kmer) for kmer in set_of_kmers])
AsmClosure ==
    /\ asm.pc = "call"
    /\ asm' = [asm EXCEPT
                 !.set = @ \cup {reverse_complement(kmer) : kmer \in @},
                 !.pc = "while"]
    /\ UNCHANGED <<pvars, idx, rd, mn>>

\* while len(set_of_kmers)>0: the smallest k-mer starts a contig.
StartContig ==
    /\ asm.pc = "while"
    /\ asm.set # {}
    /\ LET initial_kmer == MinKmer(asm.set)
       IN  asm' = [asm EXCEPT
                     !.set = Without(@, initial_kmer),
                     !.k = Len(initial_kmer),
                     !.contig = initial_kmer,
                     !.log = Append(@, [kind |-> "start", kmer |-> initial_kmer,
                                        set |-> asm.set, contig |-> <<>>,
                                        fit |-> 0]),
                     !.pc = "extending"]
    /\ UNCHANGED <<pvars, idx, rd, mn>>

\* while extending: a pass of the loop over the bases that finds a k-mer
\* of the set.
ExtendRight ==
    /\ asm.pc = "extending"
    /\ LET k == asm.k
           right_ext == FirstExt(asm.contig, k, asm.set)
           cand_kmer == RightKmer(asm.contig, k, right_ext)
       IN  /\ right_ext # ""
           /\ asm' = [asm EXCEPT
                        !.contig = Append(@, right_ext),
                        !.set = Without(@, cand_kmer),
                        !.log = Append(@,
                            [kind |-> "extend", kmer |-> cand_kmer,
                             set |-> asm.set, contig |-> asm.contig,
                             fit |-> Cardinality({x \in dna_alphabet :
                                        RightKmer(asm.contig, k, x) \in asm.set})])]
    /\ UNCHANGED <<pvars, idx, rd, mn>>

\* A pass that finds none: the contig is written.
WriteContig ==
    /\ asm.pc = "extending"
    /\ FirstExt(asm.contig, asm.k, asm.set) = ""
    /\ asm' = [asm EXCEPT
                 !.out = Append(@, asm.contig), !.contig = <<>>,
                 !.log = Append(@,
                     [kind |-> "write", kmer |-> <<>>,
                      set |-> asm.set, contig |-> asm.contig,
                      fit |-> Cardinality({x \in dna_alphabet :
                                 RightKmer(asm.contig, asm.k, x) \in asm.set})]),
                 !.pc = "while"]
    /\ UNCHANGED <<pvars, idx, rd, mn>>

\* The set is empty: the file is closed and set_to_fasta returns.
AsmReturn ==
    /\ asm.pc = "while"
    /\ asm.set = {}
    /\ asm' = [asm EXCEPT !.pc = "done"]
    /\ UNCHANGED <<pvars, idx, rd, mn>>

InitAsm ==
    /\ InitTree(3, {<<"A", "C", "G", "T">>}, {1})
    /\ Cardinality(Nodes) = 3
    /\ idx = IdxIdle /\ rd = NoRead /\ mn = NoMain
    /\ \E S \in AsmInputs : asm = NewAsm(S)

NextAsm ==
    \/ AsmClosure
    \/ StartContig
    \/ ExtendRight
    \/ WriteContig
    \/ AsmReturn

\* set_to_fasta is sequential code: it keeps taking steps until it returns.
SpecAsm == InitAsm /\ [][NextAsm]_vars /\ WF_vars(NextAsm)


(***************************************************************************)
(* Properties of the index construction, under SpecIndex.                  *)
(* idx.prev describes the invocation before the current one: whether it    *)
(* returned normally, the stage it failed in (0: none), its arguments, and *)
(* whether an input tree was modified after it ended.                      *)
(***************************************************************************)
SameArguments ==
    /\ idx.force = idx.prev.force
    /\ idx.klcp = idx.prev.klcp
    /\ idx.ntrees = idx.prev.ntrees
    /\ idx.keep = idx.prev.keep

Rerun ==
    /\ idx.run >= 2
    /\ idx.prev.ok
    /\ ~idx.prev.changed
    /\ ~idx.force
    /\ SameArguments

\* C8: an invocation of prophyle_index that follows a successful one with
\* the same arguments, unchanged input trees and no force executes the body
\* of no stage (tree merge, propagation, BWT + OCC, SA, k-LCP), with and
\* without the k-LCP construction.
C8_Idempotent == Rerun => idx.executed = {}

\* With the k-LCP construction the rerun executes nothing; without it the
\* rerun executes at most the suffix-array stage, and executes it whenever
\* no earlier invocation with the k-LCP construction left .complete.4.
C8_RerunExecutes ==
    Rerun /\ idx.pc = "done" =>
        idx.executed = IF idx.klcp \/ is_complete(idx.mt, 4) THEN {} ELSE {4}

C8_Witness == Rerun /\ idx.pc = "done" /\ idx.klcp

EnabledStages == IF idx.klcp THEN 1..NStages ELSE 1..(NStages - 1)

\* C9: when the previous invocation failed in stage i and the input trees
\* are unchanged, an invocation without force that returns normally has
\* executed stage i and every later enabled stage.
C9_FailedStageReexecuted ==
    (/\ idx.pc = "done"
     /\ idx.prev.failed # 0
     /\ ~idx.prev.changed
     /\ ~idx.force)
    => \A j \in EnabledStages : j >= idx.prev.failed => j \in idx.executed

\* The same for failures in stages 2 .. 5, and for failures in stage 1 of
\* an invocation without force.
C9_ReexecutedUnlessForcedStage1 ==
    (/\ idx.pc = "done"
     /\ idx.prev.failed # 0
     /\ ~(idx.prev.failed = 1 /\ idx.prev.force)
     /\ ~idx.prev.changed
     /\ ~idx.force)
    => \A j \in EnabledStages : j >= idx.prev.failed => j \in idx.executed

C9_Witness ==
    /\ idx.pc = "done"
    /\ idx.prev.failed = 3
    /\ ~idx.prev.changed
    /\ ~idx.force
    /\ idx.executed = {3, 4, 5}

\* C10: within one invocation, the marker of a stage is written only after
\* every statement of the stage has returned; after a failure in stage i
\* the invocation has ended, no section of a later stage was entered and no
\* marker of stage i or of a later stage was written.
C10_MarkerAfterAllSteps ==
    /\ \A w \in idx.written :
          \A n \in 1..Len(Body[w[1]]) :
             MarkOf(Body[w[1]][n]) = 0 =>
                <<w[1], Body[w[1]][n]>> \in idx.stepsDone
    /\ idx.failed # 0 =>
          /\ idx.pc = "failed"
          /\ \A w \in idx.written : w[2] < idx.failed
          /\ \A sec \in idx.started : StageTested(sec) <= idx.failed

C10_Witness ==
    /\ idx.pc = "failed"
    /\ idx.failed = 3
    /\ idx.written = {<<"s1", 1>>, <<"s2", 2>>}
    /\ <<"s3", "pac2bwt">> \in idx.stepsDone

\* The marker of the tested stage exists and is newer than the marker of
\* the stage before it (stage 1 has no stage before it).
Fresh(c) ==
    /\ c.mt[c.stage] # 0
    /\ c.stage > 1 => (c.mt[c.stage - 1] # 0 /\ c.mt[c.stage] > c.mt[c.stage - 1])

\* C11: the work of a stage is skipped iff, at the stage's test, its marker
\* exists and is newer than the marker of the stage before it.
C11_FreshnessRule == \A c \in idx.checked : c.skipped <=> Fresh(c)

\* A stage is never skipped on a marker that is absent or not newer than
\* its predecessor's.  For stages 2 .. 4 the work is skipped iff the marker
\* is fresh; stage 1 is skipped iff its marker exists, tree.preliminary.nw
\* is newer than the input trees and force is off; stage 5 is skipped iff
\* its marker is fresh and stage 4 was skipped (the parallel construction
\* redoes both).
C11_FreshnessRuleByStage ==
    \A c \in idx.checked :
        /\ c.skipped => Fresh(c)
        /\ c.stage \in 2..4 => (c.skipped <=> Fresh(c))
        /\ c.stage = 1 => (c.skipped <=> (Fresh(c) /\ c.trees /\ ~idx.force))
        /\ c.stage = NStages =>
              (c.skipped <=>
                 (Fresh(c) /\ \E d \in idx.checked : d.stage = 4 /\ d.skipped))

C11_Witness ==
    /\ \E c \in idx.checked : c.stage = 3 /\ c.skipped
    /\ \E c \in idx.checked : c.stage = 4 /\ ~c.skipped /\ c.mt[4] # 0

(***************************************************************************)
(* The assignment of one read (SpecRead, SpecAssign).  Bit positions are   *)
(* counted from 0.                                                         *)
(***************************************************************************)
\* The masks of the loaded read have been computed.
MasksComputed == rd.pc \in {"masked", "filtered", "printed"}

\* The position of block i (the k-mers of the blocks before it), the
\* blocks that set bits, and the nodes named by a block.
BlockPos(blocks, i) == SumCounts(SubSeq(blocks, 1, i - 1), 1)
HitBlock(b) == b.names # <<"0">> /\ b.names # <<"A">>
NamesOf(b) == {b.names[j] : j \in 1..Len(b.names)}
HitBlocksOf(blocks, v) ==
    {i \in 1..Len(blocks) : HitBlock(blocks[i]) /\ v \in NamesOf(blocks[i])}
Candidates(blocks) ==
    UNION {NamesOf(blocks[i]) : i \in {j \in 1..Len(blocks) : HitBlock(blocks[j])}}

\* The positions [pos, pos + count + ext) of the blocks that name v.
BlockBits(blocks, v, ext) ==
    UNION {BlockPos(blocks, i)..(BlockPos(blocks, i) + blocks[i].count + ext - 1) :
              i \in HitBlocksOf(blocks, v)}

\* The positions of the set bits of a mask.
BitsOf(mask) == {j \in 0..(Len(mask) - 1) : mask[j + 1]}

\* C12: the masks built from the blocks of a read, before inheritance, have
\* a hitmask of length n (the sum of the counts) and a covmask of length
\* n + k - 1 for exactly the nodes of the blocks other than "0" and "A";
\* the set bits of hitmask(v) are exactly the positions [pos, pos + count)
\* of the blocks that name v and those of covmask(v) exactly the positions
\* [pos, pos + count + k - 1), pos being the sum of the counts of all blocks
\* before the block, "0" and "A" blocks included.
C12_MaskConstruction ==
    MasksComputed =>
        LET b == rd.kmer_blocks
            n == SumCounts(b, 1)
        IN  /\ DOMAIN rd.raw.h = Candidates(b)
            /\ DOMAIN rd.raw.c = Candidates(b)
            /\ \A v \in Candidates(b) :
                  /\ Len(rd.raw.h[v]) = n
                  /\ Len(rd.raw.c[v]) = n + K - 1
                  /\ BitsOf(rd.raw.h[v]) = BlockBits(b, v, 0)
                  /\ BitsOf(rd.raw.c[v]) = BlockBits(b, v, K - 1)

\* A read with a "0" or "A" block of k-mers before a block of a node.
C12_Witness ==
    /\ rd.pc = "masked"
    /\ \E i, j \in 1..Len(rd.kmer_blocks) :
          /\ i < j
          /\ ~HitBlock(rd.kmer_blocks[i]) /\ rd.kmer_blocks[i].count > 0
          /\ HitBlock(rd.kmer_blocks[j]) /\ rd.kmer_blocks[j].count > 0
          /\ \E v \in NamesOf(rd.kmer_blocks[j]) :
                BitsOf(rd.raw.h[v]) # {} /\ 0 \notin BitsOf(rd.raw.h[v])

\* Every bit of the masks of a candidate is set in the masks of every
\* candidate below it.
MasksInherited ==
    MasksComputed =>
        \A a, v \in DOMAIN rd.asgs.h :
            a \in upnodes_dict[v] =>
                /\ BitsOf(rd.asgs.h[a]) \subseteq BitsOf(rd.asgs.h[v])
                /\ BitsOf(rd.asgs.c[a]) \subseteq BitsOf(rd.asgs.c[v])

\* h1 and c1 of a candidate are at least those of the candidates above it.
CountsInherited ==
    rd.pc = "filtered" =>
        \A a, v \in DOMAIN rd.vals :
            a \in upnodes_dict[v] =>
                /\ rd.vals[v].h1[2] >= rd.vals[a].h1[2]
                /\ rd.vals[v].c1[2] >= rd.vals[a].c1[2]

\* The read of scenario E4, blocks X:2 <leaf>:1 0:2 on ((A,B)X,C)R, scored
\* with h1.
ScenarioE4(leaf) ==
    /\ parent = <<0, 1, 1, 2, 2>>
    /\ rd.pc = "filtered" /\ rd.measure = "h1"
    /\ rd.krakmers = << [names |-> <<"X">>, count |-> 2],
                        [names |-> <<leaf>>, count |-> 1],
                        [names |-> <<"0">>, count |-> 2] >>

\* hitmask(leaf) = {0, 1, 2}, hitmask(X) = {0, 1} and the winner is leaf.
LeafInheritsAndWins(leaf) ==
    /\ leaf \in DOMAIN rd.asgs.h
    /\ BitsOf(rd.asgs.h[leaf]) = {0, 1, 2}
    /\ BitsOf(rd.asgs.h["X"]) = {0, 1}
    /\ rd.max_rnames = <<leaf>>

\* C13 as stated: inheritance of the masks and of h1 and c1, and blocks
\* X:2 A:1 0:2 give hitmask(A) = {0, 1, 2}, hitmask(X) = {0, 1} and the
\* winner A under h1.
C13_InheritanceE4 ==
    /\ MasksInherited
    /\ CountsInherited
    /\ ScenarioE4("A") => LeafInheritsAndWins("A")

\* C13: after the mask computation every bit of hitmask(a) is set in
\* hitmask(v), and likewise for covmask, for candidates a above v, so h1
\* and c1 of v are at least those of a.  Blocks X:2 B:1 0:2 give
\* hitmask(B) = {0, 1, 2}, hitmask(X) = {0, 1} and the winner B under h1;
\* in blocks X:2 A:1 0:2 the block A:1 is an ambiguous block, A is no
\* candidate and the winner is X with hitmask {0, 1}.
C13_InheritanceE4WithB ==
    /\ MasksInherited
    /\ CountsInherited
    /\ ScenarioE4("B") => LeafInheritsAndWins("B")
    /\ ScenarioE4("A") =>
          /\ DOMAIN rd.asgs.h = {"X"}
          /\ BitsOf(rd.asgs.h["X"]) = {0, 1}
          /\ rd.max_rnames = <<"X">>

C13_Witness == ScenarioE4("B") /\ rd.vals["B"].h1 = PyInt(3)

\* The dilation of a set of positions by a window of length k, and the
\* number of runs of consecutive positions.
Dilation(bits, k) == UNION {i..(i + k - 1) : i \in bits}
Runs(bits) == Cardinality({i \in bits : i - 1 \notin bits})

\* covmask is the dilation of hitmask, with the bound on its popcount, in
\* the masks m (m.h and m.c).
Dilated(m) ==
    \A v \in DOMAIN m.h :
        /\ BitsOf(m.c[v]) = Dilation(BitsOf(m.h[v]), K)
        /\ Cardinality(BitsOf(m.c[v]))
              <= Cardinality(BitsOf(m.h[v])) + (K - 1) * Runs(BitsOf(m.h[v]))

\* Every block of the loaded read that names a node has k-mers.
PositiveHitBlocks ==
    \A i \in 1..Len(rd.kmer_blocks) :
        HitBlock(rd.kmer_blocks[i]) => rd.kmer_blocks[i].count > 0

\* C14 as stated: for every stream of blocks with counts >= 0, before and
\* after inheritance, covmask is the dilation of hitmask by a window of
\* length k and popcount(covmask) <= popcount(hitmask) + (k-1)*runs(hitmask).
C14_MaskConsistency ==
    MasksComputed => Dilated(rd.raw) /\ Dilated(rd.asgs)

\* C14: the same for the streams whose blocks of nodes have counts > 0; for
\* every stream the dilation of hitmask is part of covmask (a block of a
\* node with count 0 sets k - 1 bits of covmask and no bit of hitmask).
C14_MaskConsistencyPositive ==
    MasksComputed =>
        /\ PositiveHitBlocks => Dilated(rd.raw) /\ Dilated(rd.asgs)
        /\ \A v \in DOMAIN rd.asgs.h :
              /\ Dilation(BitsOf(rd.raw.h[v]), K) \subseteq BitsOf(rd.raw.c[v])
              /\ Dilation(BitsOf(rd.asgs.h[v]), K) \subseteq BitsOf(rd.asgs.c[v])

\* A read with hits in two runs on a candidate that inherits one of them.
C14_Witness ==
    /\ rd.pc = "masked" /\ PositiveHitBlocks
    /\ \E v \in DOMAIN rd.asgs.h :
          /\ Runs(BitsOf(rd.asgs.h[v])) = 2
          /\ rd.asgs.h[v] # rd.raw.h[v]

\* The value of a measure for candidate v as a quotient <<a, b>>, from the
\* masks after inheritance: h1 and c1 are the popcounts of hitmask and
\* covmask, h2 and c2 divide them by the number of k-mers of the node.
ValueOf(v, measure) ==
    LET hits == Cardinality(BitsOf(rd.asgs.h[v]))
        cov == Cardinality(BitsOf(rd.asgs.c[v]))
    IN  CASE measure = "h1" -> <<hits, 1>>
          [] measure = "h2" -> <<hits, kmer_count_dict[v]>>
          [] measure = "c1" -> <<cov, 1>>
          [] measure = "c2" -> <<cov, kmer_count_dict[v]>>

\* The candidates whose value is the maximum over all candidates.
ArgMax(measure) ==
    {v \in DOMAIN rd.asgs.h :
        \A u \in DOMAIN rd.asgs.h :
            ValueOf(u, measure)[1] * ValueOf(v, measure)[2]
                <= ValueOf(v, measure)[1] * ValueOf(u, measure)[2]}

\* The winner set of the read.
W == {rd.max_rnames[i] : i \in 1..Len(rd.max_rnames)}

PrintCalled ==
    \/ rd.pc = "printed"
    \/ rd.pc = "crashed" /\ rd.max_rnames # <<>>

\* The tie of the loaded read is resolved by the LCA.
TieResolved == PrintCalled /\ rd.tie_lca /\ Len(rd.max_rnames) > 1

\* The fields of the measure's family as filter_assignments computes them
\* for candidate v.
FamilyFields(v, measure) ==
    LET hits == Cardinality(BitsOf(rd.asgs.h[v]))
        cov == Cardinality(BitsOf(rd.asgs.c[v]))
    IN  IF measure \in {"h1", "h2"}
        THEN [h1 |-> PyInt(hits), h2 |-> PyFloat(hits, kmer_count_dict[v]),
              hf |-> PyFloat(hits, rd.qlen - K + 1),
              c1 |-> Absent, c2 |-> Absent, cf |-> Absent]
        ELSE [h1 |-> Absent, h2 |-> Absent, hf |-> Absent,
              c1 |-> PyInt(cov), c2 |-> PyFloat(cov, kmer_count_dict[v]),
              cf |-> PyFloat(cov, rd.qlen)]

\* rec is the record of the LCA of the tied winners: for that node, and in
\* SAM with the fields of the measure's family of the first winner, the
\* other family and the hit CIGAR absent and "*" as CIGAR.
LcaRecord(rec) ==
    LET l == lca(rd.max_rnames)
        f == FamilyFields(rd.max_rnames[1], rd.measure)
    IN  IF rd.form = "sam"
        THEN /\ rec.fmt = "sam" /\ rec.flag = 0 /\ rec.rname = l
             /\ rec.cigar = <<"*">>
             /\ rec.tags.hitcigar = Absent
             /\ \A t \in DOMAIN f :
                   rec.tags[t] = IF Truthy(f[t]) THEN f[t] ELSE Absent
        ELSE /\ rec.fmt = "kraken" /\ rec.stat = "C"
             /\ rec.ref = IF rd.simulate_lca THEN PyInt(taxid_dict[l])
                          ELSE <<"str", l>>

\* C16 as stated: with tie_lca and more than one winner exactly one record
\* is printed, in SAM and in Kraken format, for lca(W), with the fields of
\* the measure's family copied from the first winner, the other family's
\* fields and the masks absent and no covmask CIGAR; blocks A,B:2 0:3 under
\* h1 print one record for X with h1 = 2.
C16_TieBreakByLCA ==
    TieResolved => Len(rd.out) = 1 /\ LcaRecord(rd.out[1])

\* The same for the Kraken format alone, which holds.
C16_TieBreakKraken ==
    TieResolved /\ rd.form = "kraken"
        /\ (rd.simulate_lca => rd.taxids = DOMAIN name_dict) =>
        rd.pc = "printed" /\ Len(rd.out) = 1 /\ LcaRecord(rd.out[1])

\* In SAM format a resolved tie prints nothing: print_sam_line raises
\* KeyError on asg['ln'].
C16_TieBreakSamRaises ==
    TieResolved /\ rd.form = "sam" =>
        rd.pc = "crashed" /\ rd.err = "KeyError" /\ rd.out = <<>>

\* Scenario E3 printed with tie_lca: blocks A,B:2 0:3 under h1.
C16_ScenarioE3 ==
    /\ TieResolved /\ rd.measure = "h1" /\ parent = <<0, 1, 1, 2, 2>>
    /\ rd.krakmers = << [names |-> <<"A", "B">>, count |-> 2],
                        [names |-> <<"0">>, count |-> 3] >>

\* C17: for a read with exactly one winner print_assignments prints the
\* same records, and ends the same way, with tie_lca on and with tie_lca
\* off, in both formats and for the measure the read was scored with; the
\* records printed are those of the other setting of tie_lca.
C17_TieOfOneIsNoOp ==
    Len(rd.max_rnames) = 1 =>
        /\ rd.pc = "filtered" =>
              \A form \in {"sam", "kraken"} :
                  print_assignments(rd, form, rd.measure, TRUE)
                      = print_assignments(rd, form, rd.measure, FALSE)
        /\ rd.pc = "printed" =>
              LET other == print_assignments(rd, rd.form, rd.measure, ~rd.tie_lca)
              IN  other.err = "none" /\ other.out = rd.out

\* A read with one winner among several candidates, printed with tie_lca.
C17_Witness ==
    /\ rd.pc = "printed" /\ rd.tie_lca
    /\ Len(rd.max_rnames) = 1 /\ Cardinality(DOMAIN rd.asgs.h) > 1
    /\ Len(rd.out) = 1

\* The line taken from the input has been processed: its processing
\* returned or raised.
LineProcessed == rd.pc \in {"printed", "crashed"}

\* rec is the record of an unassigned read in the format form.
Unassigned(rec, form) ==
    IF form = "sam"
    THEN rec.fmt = "sam" /\ rec.flag = 4 /\ rec.rname = "*"
    ELSE rec.fmt = "kraken" /\ rec.stat = "U" /\ rec.ref = <<"str", "0">>

\* rec is a record that assigns the read to node v.
AssignedTo(rec, v) ==
    IF rec.fmt = "sam" THEN rec.flag = 0 /\ rec.rname = v
    ELSE rec.stat = "C"
            /\ rec.ref = IF rd.simulate_lca THEN PyInt(taxid_dict[v])
                         ELSE <<"str", v>>

\* C18 as stated: every processed line has printed at least one record; a
\* read without winners exactly one unassigned record; a read with winners
\* and no collapse to the LCA one assigned record per winner and no other.
C18_RecordCountPerLine ==
    LineProcessed =>
        /\ Len(rd.out) >= 1
        /\ rd.max_rnames = <<>> =>
              Len(rd.out) = 1 /\ Unassigned(rd.out[1], rd.form)
        /\ rd.max_rnames # <<>> /\ ~TieCollapses(rd.tie_lca, rd.max_rnames) =>
              /\ Len(rd.out) = Len(rd.max_rnames)
              /\ \A i \in 1..Len(rd.out) : AssignedTo(rd.out[i], rd.max_rnames[i])

\* Every line that process_krakline was called on ended in an exception,
\* with no record printed.
C18_EveryLineRaises ==
    rd.pc # "idle" =>
        /\ rd.pc = "crashed" /\ rd.out = <<>>
        /\ rd.err \in {"AttributeError", "ValueError", "KeyError", "AssertionError"}

\* The records of print_assignments when it returns (SpecRead): the count
\* of the claim holds for the method called by itself.
C18_RecordsOfPrint ==
    rd.pc = "printed" =>
        /\ rd.max_rnames = <<>> =>
              Len(rd.out) = 1 /\ Unassigned(rd.out[1], rd.form)
        /\ rd.max_rnames # <<>> /\ ~TieCollapses(rd.tie_lca, rd.max_rnames) =>
              /\ Len(rd.out) = Len(rd.max_rnames)
              /\ \A i \in 1..Len(rd.out) : AssignedTo(rd.out[i], rd.max_rnames[i])

\* The processed line is a read shorter than k with an empty blocks field.
ShortReadNoBlocks == LineProcessed /\ rd.qlen < K /\ rd.krakmers = <<>>

\* C19 as stated: a read with qlen < k and zero blocks is accepted and
\* gives exactly one unassigned record, without an error, and the next
\* line can be taken.
C19_ShortReadUnassigned ==
    ShortReadNoBlocks =>
        /\ rd.pc = "printed" /\ rd.err = "none"
        /\ Len(rd.out) = 1 /\ Unassigned(rd.out[1], rd.form)

\* An empty blocks field raises ValueError in load_krakline, whichever way
\* the line is processed.
C19_EmptyFieldRaises ==
    ShortReadNoBlocks =>
        rd.pc = "crashed" /\ rd.err = "ValueError" /\ rd.out = <<>>

\* A read shorter than k whose blocks field is the single block 0:0 gives
\* one unassigned record when the methods are called one by one (SpecRead).
C19_ZeroCountBlockUnassigned ==
    /\ LineProcessed /\ rd.qlen < K
    /\ rd.krakmers = <<[names |-> <<"0">>, count |-> 0]>>
    => /\ rd.pc = "printed"
       /\ Len(rd.out) = 1 /\ Unassigned(rd.out[1], rd.form)

\* The processed line names a node that is not in the tree, or is
\* malformed (an empty blocks field, or counts that do not fit the length
\* of a read of at least k).
UnknownName ==
    \E i \in 1..Len(rd.krakmers) :
        \E n \in NamesOf(rd.krakmers[i]) :
            HitBlock(rd.krakmers[i]) /\ n \notin DOMAIN name_dict
Malformed ==
    \/ rd.krakmers = <<>>
    \/ rd.qlen >= K /\ rd.qlen # SumCounts(rd.krakmers, 1) + K - 1
FaultyLine == LineProcessed /\ (UnknownName \/ Malformed)

\* C20 as stated: a faulty line gives exactly one unassigned record and
\* the processing goes on with the next line.
C20_FaultyLineOnly ==
    FaultyLine =>
        /\ rd.pc = "printed"
        /\ Len(rd.out) = 1 /\ Unassigned(rd.out[1], rd.form)

\* Every faulty line ends in an exception with no record, and no line is
\* taken after it (SpecAssign and SpecRead).
C20_FaultyLineRaises ==
    FaultyLine =>
        /\ rd.pc = "crashed" /\ rd.out = <<>>
        /\ ~ENABLED NextLine

\* The read of scenario E2 scored: tree ((A,B)X,C)R, k = 3, length 7,
\* blocks X:1 A:1 0:3, measure h1, tie_lca off.
ScenarioE2 ==
    /\ parent = <<0, 1, 1, 2, 2>> /\ K = 3
    /\ rd.pc \in {"filtered", "printed"}
    /\ rd.measure = "h1" /\ ~rd.tie_lca
    /\ rd.qlen = 7
    /\ rd.krakmers = << [names |-> <<"X">>, count |-> 1],
                        [names |-> <<"A">>, count |-> 1],
                        [names |-> <<"0">>, count |-> 3] >>

\* C21: the read of scenario E2 has the single winner X, with h1 = 1, and
\* once printed its only record is the one of X.
C21_ScenarioE2 ==
    ScenarioE2 =>
        /\ rd.max_rnames = <<"X">>
        /\ rd.vals["X"].h1 = PyInt(1)
        /\ rd.pc = "printed" =>
              Len(rd.out) = 1 /\ AssignedTo(rd.out[1], "X")

C21_Witness == ScenarioE2 /\ rd.pc = "printed" /\ rd.form = "sam"

\* print_kraken_line has been called in simulate_lca mode for the loaded
\* read.
KrakenLcaPrintCalled == PrintCalled /\ rd.form = "kraken" /\ rd.simulate_lca

\* The label of node name n in the emitted blocks: "0" and "A" as they
\* are, the taxid of a node that has one, else the name of the node.
LabelOf(n) ==
    IF n \in {"0", "A"} THEN <<"str", n>>
    ELSE IF n \in rd.taxids THEN PyInt(100 + name_dict[n])
    ELSE <<"str", n>>

\* The labels of the k-mer positions of the input blocks, each block
\* standing for the LCA of its names.
RECURSIVE PositionLabels(_, _)
PositionLabels(blocks, i) ==
    IF i > Len(blocks) THEN <<>>
    ELSE [j \in 1..blocks[i].count |-> LabelOf(lca(blocks[i].names))]
            \o PositionLabels(blocks, i + 1)

\* The sequence that the runs <<label, length>> stand for.
RECURSIVE ExpandRuns(_)
ExpandRuns(runs) ==
    IF runs = <<>> THEN <<>>
    ELSE [j \in 1..Head(runs)[2] |-> Head(runs)[1]] \o ExpandRuns(Tail(runs))

\* runs is the run-length encoding of the position labels of the read.
EncodesLabels(runs) ==
    /\ ExpandRuns(runs) = PositionLabels(rd.krakmers, 1)
    /\ \A i \in 1..Len(runs) : runs[i][2] >= 1
    /\ \A i \in 1..(Len(runs) - 1) : runs[i][1] # runs[i + 1][1]

\* C22 as stated: in simulate_lca mode the Kraken record of a read is
\* printed with, as blocks, the run-length encoding of the labels of the
\* positions (taxid of the block's LCA if the tree has one, else the node's
\* name; "0" and "A" kept), adjacent runs differing.
C22_KrakenLcaEmission ==
    KrakenLcaPrintCalled =>
        /\ rd.pc = "printed" /\ Len(rd.out) >= 1
        /\ \A i \in 1..Len(rd.out) : EncodesLabels(rd.out[i].blocks)

\* The same when every node of the tree has a taxid, which holds; blocks
\* A,B:2 A:1 0:1 give taxid(X):2 A:1 0:1.
C22_KrakenLcaEmissionWithTaxids ==
    KrakenLcaPrintCalled /\ rd.taxids = DOMAIN name_dict =>
        /\ rd.pc = "printed" /\ Len(rd.out) >= 1
        /\ \A i \in 1..Len(rd.out) : EncodesLabels(rd.out[i].blocks)
        /\ ( /\ parent = <<0, 1, 1, 2, 2>>
             /\ rd.krakmers = << [names |-> <<"A", "B">>, count |-> 2],
                                 [names |-> <<"A">>, count |-> 1],
                                 [names |-> <<"0">>, count |-> 1] >> )
           => rd.out[1].blocks = << <<PyInt(taxid_dict["X"]), 2>>,
                                    <<<<"str", "A">>, 1>>, <<<<"str", "0">>, 1>> >>

\* Without a taxid for the node of a block, or for the winner, the lookup
\* in taxid_dict raises KeyError and nothing is printed.
C22_NoTaxidRaises ==
    /\ KrakenLcaPrintCalled /\ rd.taxids = {}
    /\ \E i \in 1..Len(rd.kmer_blocks) : HitBlock(rd.kmer_blocks[i])
    => rd.pc = "crashed" /\ rd.err = "KeyError" /\ rd.out = <<>>

(***************************************************************************)
(* The end of the process of prophyle_assignment.py (SpecMain).            *)
(***************************************************************************)
\* C23 as stated: a process that caught BrokenPipeError has closed its
\* outputs and ends with status 0, one that caught KeyboardInterrupt ends
\* with status 1, and in both cases the exception that ends the process is
\* the SystemExit of the handler.
C23_ExitStatusOnCancellation ==
    mn.pc = "exited" =>
        /\ mn.caught = "BrokenPipeError" =>
              /\ mn.stdout = "closed" /\ mn.stderr = "closed"
              /\ mn.status = 0 /\ mn.exc = "SystemExit(0)"
        /\ mn.caught = "KeyboardInterrupt" =>
              mn.status = 1 /\ mn.exc = "SystemExit(1)"

\* After KeyboardInterrupt the process ends with the status 1 of exit(1).
C23_InterruptExitsWith1 ==
    mn.pc = "exited" /\ mn.caught = "KeyboardInterrupt" =>
        mn.status = 1 /\ mn.exc = "SystemExit(1)"

\* After BrokenPipeError the outputs are closed, and the flush of the
\* finally clause on the closed sys.stdout raises ValueError: the process
\* ends with status 1.
C23_BrokenPipeExitsWith1 ==
    mn.pc = "exited" /\ mn.caught = "BrokenPipeError" =>
        /\ mn.stdout = "closed" /\ mn.stderr = "closed"
        /\ mn.exc = "ValueError" /\ mn.status = 1

(***************************************************************************)
(* Stage 1 with several input trees, and the order of the executed stages  *)
(* (SpecIndex).                                                            *)
(***************************************************************************)
\* Stage 1 has to run and every input tree was loaded and validated.
Stage1ValidTrees ==
    /\ "s1" \in idx.started
    /\ <<"s1", "validate_trees">> \in idx.stepsDone

\* The statement of stage 1 at which the invocation was left.
FailedAt(step) ==
    idx.pc = "failed" /\ idx.sec = "s1" /\ Body["s1"][idx.i] = step

\* C24: in an invocation with two or more input trees in which stage 1 has
\* to run and every input tree is valid, stage 1 is not left before the
\* merge (_propagation_preprocessing) is called: as with one input tree,
\* the only statement after the validation that can end the invocation is
\* the merge itself, so that marker 1 is written and stage 2 is reached
\* when the merge succeeds.
C24_MergeManyTrees ==
    idx.ntrees >= 2 /\ Stage1ValidTrees => ~FailedAt("merge_message")

\* With one input tree this holds, and marker 1 is written after the merge.
C24_MergeOneTree ==
    idx.ntrees = 1 /\ Stage1ValidTrees =>
        /\ ~FailedAt("merge_message")
        /\ <<"s1", "propagation_preprocessing">> \in idx.stepsDone
              => idx.pc = "body" \/ <<"s1", 1>> \in idx.written

\* With two input trees, stage 1 never gets past the message: the merge is
\* not called, no marker is written and stage 2 is not entered.
C24_ManyTreesEndInStage1 ==
    idx.ntrees >= 2 /\ "s1" \in idx.started =>
        /\ idx.sec = "s1" /\ idx.pc \in {"body", "failed"}
        /\ <<"s1", "propagation_preprocessing">> \notin idx.stepsDone
        /\ idx.written = {}
        /\ idx.started = {"s1"}

\* The stages a call can execute, and the executed stages as a suffix of
\* them.
SuffixOfEnabled(S) ==
    \A i \in S : \A j \in EnabledStages : j > i => j \in S

\* C29: in an invocation that returns normally, the executed stages are a
\* suffix of the enabled stages (1..5 with the k-LCP construction, 1..4
\* without): once a stage is executed every later enabled stage is
\* executed, also one whose own marker is fresh at its test; with force
\* the suffix starts at stage 1.
C29_RecomputeMonotone ==
    idx.pc = "done" =>
        /\ idx.executed \subseteq EnabledStages
        /\ SuffixOfEnabled(idx.executed)
        /\ idx.force => idx.executed = EnabledStages

\* While the invocation runs, the executed stages are consecutive and every
\* stage between the first executed one and the current one is executed,
\* also when its marker was fresh at its test.
C29_NoSkipAfterExecution ==
    \A c \in idx.checked :
        c.skipped => \A i \in idx.executed : i > c.stage

C29_Witness ==
    /\ idx.pc = "done" /\ ~idx.force /\ idx.klcp
    /\ idx.executed = {3, 4, 5}
    /\ \E c \in idx.checked :
          c.stage = NStages /\ ~c.skipped /\ is_complete(c.mt, NStages)

(***************************************************************************)
(* The validation of the block counts by load_krakline (SpecRead).         *)
(***************************************************************************)
\* load_krakline was called on a line with a non-empty <blocks> field.
LineLoaded == rd.pc # "idle" /\ rd.krakmers # <<>>

\* The sum of the block counts the validation invariant asks for.
ExpectedSum == IF rd.qlen >= K THEN rd.qlen - K + 1 ELSE 0

\* load_krakline returned; load_krakline raised and no mask was built.
Accepted == rd.pc \in {"loaded", "masked", "filtered", "printed"}
RejectedOnLoad ==
    /\ rd.pc = "crashed"
    /\ rd.err \in {"AssertionError", "ValueError", "KeyError"}
    /\ rd.raw = NoMasks /\ rd.asgs = NoMasks

\* C25 as stated: a line is accepted only if its block counts sum to
\* qlen - k + 1 when qlen >= k and to 0 when qlen < k; a line that violates
\* this is rejected by load_krakline, before any mask is built.
C25_BlockCountValidation ==
    LineLoaded =>
        /\ Accepted => SumCounts(rd.krakmers, 1) = ExpectedSum
        /\ SumCounts(rd.krakmers, 1) # ExpectedSum => RejectedOnLoad

\* For qlen >= k this holds, and the exception is the AssertionError when
\* every token could be decoded.
C25_ValidationFromK ==
    LineLoaded /\ rd.qlen >= K =>
        /\ Accepted => SumCounts(rd.krakmers, 1) = ExpectedSum
        /\ SumCounts(rd.krakmers, 1) # ExpectedSum =>
              /\ RejectedOnLoad
              /\ LoadBlocks(rd.krakmers, 1, rd.simulate_lca).err = "none"
                    => rd.err = "AssertionError"

\* For qlen < k the assertion holds whatever the counts are: the line is
\* rejected only when a token cannot be decoded, and the masks are built
\* from the counts of the line.
C25_NoValidationBelowK ==
    LineLoaded /\ rd.qlen < K =>
        /\ rd.err # "AssertionError"
        /\ LoadBlocks(rd.krakmers, 1, rd.simulate_lca).err = "none"
              => ~RejectedOnLoad
        /\ MasksComputed /\ rd.raw.keys # <<>> =>
              /\ Len(rd.raw.h[rd.raw.keys[1]]) = SumCounts(rd.krakmers, 1)
              /\ Len(rd.raw.c[rd.raw.keys[1]]) =
                    SumCounts(rd.krakmers, 1) + K - 1

(***************************************************************************)
(* cigar_from_mask in the SAM records of print_assignments (SpecRead).     *)
(***************************************************************************)
\* The mask a CIGAR stands for, and the number of bases it spans.
RECURSIVE CigarBits(_)
CigarBits(cigar) ==
    IF cigar = <<>> THEN <<>>
    ELSE Rep(cigar[1][1], cigar[1][2] = "=") \o CigarBits(Tail(cigar))

RECURSIVE CigarSpan(_)
CigarSpan(cigar) ==
    IF cigar = <<>> THEN 0 ELSE cigar[1][1] + CigarSpan(Tail(cigar))

\* cigar is the run-length encoding of mask: runs of length >= 1 with the
\* ops "=" and "X", adjacent runs with different ops, the runs expand to
\* the mask and their lengths sum to its length.
RunLengthEncodes(cigar, mask) ==
    /\ \A i \in 1..Len(cigar) : cigar[i][1] >= 1 /\ cigar[i][2] \in {"=", "X"}
    /\ \A i \in 1..(Len(cigar) - 1) : cigar[i][2] # cigar[i + 1][2]
    /\ CigarBits(cigar) = mask
    /\ CigarSpan(cigar) = Len(mask)

\* The SAM records of assigned reads printed for the current line.
AssignedSamRecords ==
    IF rd.pc = "printed" /\ rd.form = "sam"
    THEN {rd.out[i] : i \in {j \in 1..Len(rd.out) : rd.out[j].flag = 0}}
    ELSE {}

\* C26 as stated: the CIGAR and the hit CIGAR of every assigned SAM record
\* are the run-length encodings of the covmask and of the hitmask of the
\* winner, and the CIGAR spans exactly qlen bases.
C26_CigarLossless ==
    \A rec \in AssignedSamRecords :
        /\ RunLengthEncodes(rec.cigar[2], rd.vals[rec.rname].covmask[2])
        /\ RunLengthEncodes(rec.tags.hitcigar[2], rd.vals[rec.rname].hitmask[2])
        /\ CigarSpan(rec.cigar[2]) = rd.qlen

\* The encoding is lossless for every mask that reaches cigar_from_mask.
C26_RunLengthEncoding ==
    \A rec \in AssignedSamRecords :
        /\ RunLengthEncodes(rec.cigar[2], rd.vals[rec.rname].covmask[2])
        /\ RunLengthEncodes(rec.tags.hitcigar[2], rd.vals[rec.rname].hitmask[2])

\* The CIGAR spans the k-mers the blocks count plus k - 1 bases, which is
\* qlen for a read of at least k bases.
C26_SpanFromBlocks ==
    \A rec \in AssignedSamRecords :
        /\ CigarSpan(rec.cigar[2]) = SumCounts(rd.krakmers, 1) + K - 1
        /\ rd.qlen >= K => CigarSpan(rec.cigar[2]) = rd.qlen

\* The same for every non-empty mask of up to MaxKmers + K bits.
C26_EveryMask ==
    \A n \in 1..(MaxKmers + K) : \A mask \in [1..n -> BOOLEAN] :
        RunLengthEncodes(cigar_from_mask(mask), mask)

\* A record whose hit CIGAR has three runs.
C26_SeveralRuns ==
    \E rec \in AssignedSamRecords : Len(rec.tags.hitcigar[2]) >= 3

(***************************************************************************)
(* TreeIndex.lca as load_krakline calls it in simulate_lca mode            *)
(* (SpecRead).                                                             *)
(***************************************************************************)
\* The calls self.tree.lca(rnames) of the accepted line: the list of names
\* and the name returned.
LcaCalls ==
    IF rd.simulate_lca /\ Accepted
    THEN {[noden_l |-> rd.krakmers[i].names, ret |-> rd.kmer_blocks[i].names[1]] :
             i \in 1..Len(rd.krakmers)}
    ELSE {}

Members(noden_l) == {noden_l[i] : i \in 1..Len(noden_l)}

\* Node a is node n or an ancestor of n (by name).
AncestorOrSelf(a, n) == a = n \/ name_dict[a] \in Ancestors(name_dict[n])

\* The lowest node that is every node of S or an ancestor of it.
CommonAncestors(S) == {a \in Nodes : \A v \in S : a = v \/ a \in Ancestors(v)}
Lowest(S) ==
    CHOOSE a \in CommonAncestors(S) :
        \A b \in CommonAncestors(S) : b = a \/ b \in Ancestors(a)

UnaryRoot == Cardinality(get_children(Root)) = 1

\* The node the call is to return: the lowest common ancestor, the only
\* child of the root in its place when it is a root with one child.
LcaOrOnlyChild(S) ==
    IF Lowest(S) = Root /\ UnaryRoot
    THEN CHOOSE c \in get_children(Root) : TRUE ELSE Lowest(S)

\* C27 as stated: lca returns the lowest common ancestor of the named
\* nodes, the only child of the root in its place when it is a root with
\* one child, and the node returned is every node of the list or an
\* ancestor of it, also for lists that name the root or an ancestor of
\* another member.
C27_LcaIsCommonAncestor ==
    \A c \in LcaCalls :
        Members(c.noden_l) \subseteq DOMAIN name_dict =>
            /\ c.ret = NodeName[LcaOrOnlyChild({name_dict[n] : n \in Members(c.noden_l)})]
            /\ \A n \in Members(c.noden_l) : AncestorOrSelf(c.ret, n)

\* A list of one name gives that name; a longer list gives the lowest
\* common ancestor or, when that is a root with one child, the child; the
\* node returned is every member of the list or an ancestor of it, except
\* for a member that is a root with one child.
C27_LcaUnlessUnaryRoot ==
    \A c \in LcaCalls :
        Members(c.noden_l) \subseteq DOMAIN name_dict =>
            /\ Len(c.noden_l) = 1 => c.ret = c.noden_l[1]
            /\ Len(c.noden_l) > 1 =>
                  c.ret = NodeName[LcaOrOnlyChild({name_dict[n] : n \in Members(c.noden_l)})]
            /\ \A n \in Members(c.noden_l) :
                  ~(name_dict[n] = Root /\ UnaryRoot) => AncestorOrSelf(c.ret, n)

C27_Witness ==
    /\ UnaryRoot
    /\ \E c \in LcaCalls : c.noden_l = <<"R", "A">> /\ c.ret = "X"
    /\ \E c \in LcaCalls : c.noden_l = <<"R">> /\ c.ret = "R"

(***************************************************************************)
(* The contigs of set_to_fasta with assemble on (SpecAsm).                 *)
(***************************************************************************)
Returned == asm.pc = "done"
CanonicalKmers(S) == {Canonical(kmer) : kmer \in S}

\* The entries of the log that take a k-mer out of the set.
Consumed == {i \in 1..Len(asm.log) : asm.log[i].kind # "write"}

\* The number of windows of length k of the contigs written.
RECURSIVE WindowCount(_, _)
WindowCount(out, k) ==
    IF out = <<>> THEN 0 ELSE Len(Head(out)) - k + 1 + WindowCount(Tail(out), k)

\* Every k-mer of the input is taken out once, in one orientation, and no
\* other k-mer is.
ConsumedOnce ==
    /\ \A i \in Consumed : Canonical(asm.log[i].kmer) \in CanonicalKmers(asm.input)
    /\ \A i, j \in Consumed :
          i # j => Canonical(asm.log[i].kmer) # Canonical(asm.log[j].kmer)
    /\ Returned =>
          {Canonical(asm.log[i].kmer) : i \in Consumed} = CanonicalKmers(asm.input)

\* The windows of the contigs written are the canonical k-mers of the
\* input, one window for each.
ContentPreserved ==
    Returned =>
        /\ asm.set = {}
        /\ CanonicalKmers(UNION {Windows(asm.out[i], AsmK) : i \in 1..Len(asm.out)})
              = CanonicalKmers(asm.input)
        /\ WindowCount(asm.out, AsmK) = Cardinality(CanonicalKmers(asm.input))

\* A contig starts at the smallest k-mer of the set.
StartsAtSmallest ==
    \A i \in 1..Len(asm.log) :
        asm.log[i].kind = "start" =>
            /\ asm.log[i].kmer \in asm.log[i].set
            /\ \A y \in asm.log[i].set :
                  y = asm.log[i].kmer \/ StrLess(asm.log[i].kmer, y)

\* The k-mer an extension takes is the end of the contig with one base
\* appended, and is in the set.
ExtendsRight ==
    \A i \in 1..Len(asm.log) :
        asm.log[i].kind = "extend" =>
            /\ asm.log[i].kmer \in asm.log[i].set
            /\ \E x \in dna_alphabet :
                  asm.log[i].kmer = RightKmer(asm.log[i].contig, AsmK, x)

\* C28 as stated: set_to_fasta returns; every k-mer of the set is consumed
\* once and the canonical k-mers of the windows of the contigs are those
\* of the input; a contig starts at the smallest remaining k-mer, is
\* extended only when exactly one base extends it within the set, and is
\* written when no base or more than one does.
C28_GreedyUnitigs ==
    /\ ConsumedOnce /\ ContentPreserved /\ StartsAtSmallest /\ ExtendsRight
    /\ \A i \in 1..Len(asm.log) :
          /\ asm.log[i].kind = "extend" => asm.log[i].fit = 1
          /\ asm.log[i].kind = "write" => asm.log[i].fit # 1

\* The extension taken is the first of A, C, G, T that fits, also when
\* several fit, and a contig is written only when none fits.
FirstFitTaken ==
    \A i \in 1..Len(asm.log) :
        /\ asm.log[i].kind = "extend" =>
              /\ asm.log[i].fit >= 1
              /\ \A x \in dna_alphabet :
                    Ord(x) < Ord(asm.log[i].kmer[AsmK]) =>
                        RightKmer(asm.log[i].contig, AsmK, x) \notin asm.log[i].set
        /\ asm.log[i].kind = "write" => asm.log[i].fit = 0

\* set_to_fasta returns, with every k-mer consumed once, the content
\* preserved, every contig started at the smallest remaining k-mer and
\* extended by the first base that fits until none does.
C28_GreedyFirstFit ==
    /\ [](ConsumedOnce /\ ContentPreserved /\ StartsAtSmallest /\ ExtendsRight
            /\ FirstFitTaken)
    /\ <>Returned

\* A call in which two bases fit at an extension and two contigs are
\* written: {AC, CA, CC} gives ACA and CC.
C28_Witness ==
    /\ Returned
    /\ asm.input = {<<"A", "C">>, <<"C", "A">>, <<"C", "C">>}
    /\ asm.out = << <<"A", "C", "A">>, <<"C", "C">> >>
    /\ \E i \in 1..Len(asm.log) : asm.log[i].kind = "extend" /\ asm.log[i].fit = 2

(***************************************************************************)
(* The writers and the readers of the files of the propagation (SpecMake). *)
(***************************************************************************)
count_fn(node) == <<node, "count">>
Artifacts == FileNames \cup {count_fn(v) : v \in Nodes}

\* The files the recipe of rule r writes: the outputs of its command, -s
\* {c} of an assembly rule, the link of the link rule.
Written(r) ==
    Outputs(r) \cup
    (IF r = RootLink THEN {reduced_fasta_fn(Root)}
     ELSE IF is_leaf(r) THEN {} ELSE {count_fn(r)})

\* The files of the propagation the recipe of rule r reads: -i {ii} of an
\* assembly rule, the file the link of the link rule names.
ReadBy(r) ==
    IF r = RootLink THEN {nonreduced_fasta_fn(Root)}
    ELSE IF is_leaf(r) THEN {}
    ELSE {input_files(r)[x] : x \in get_children(r)}

Writers(f) == {r \in Rules : f \in Written(r)}

\* make runs rule w before rule r: w is a prerequisite of r, or of a
\* prerequisite of r.
RECURSIVE OrderedBefore(_, _)
OrderedBefore(w, r) ==
    w \in Prereqs(r) \/ \E q \in Prereqs(r) : OrderedBefore(w, q)

\* The rules of the Makefile, which is written from the tree before make
\* starts and does not change afterwards: every file has at most one
\* writer, the one named below, and a rule reads only files whose writer
\* make runs before it.
OneWriterPerFile ==
    /\ \A f \in Artifacts : Cardinality(Writers(f)) <= 1
    /\ \A v \in Nodes :
          /\ Writers(nonreduced_fasta_fn(v)) = {v}
          /\ Writers(reduced_fasta_fn(v)) =
                {IF v = Root THEN RootLink ELSE parent[v]}
          /\ ~is_leaf(v) => Writers(count_fn(v)) = {v}
    /\ \A r \in Rules : \A f \in ReadBy(r) :
          \A w \in Writers(f) : OrderedBefore(w, r)

NothingMade == \A r \in Rules : mark[r] = "absent" /\ job[r] = 0

\* C30: every file of the propagation has at most one writer: a node's
\* full FASTA is written by the node's own rule, the count file of an
\* internal node by its own rule, the reduced FASTA of a node by its
\* parent's rule and that of the root by the link rule; a rule reads only
\* files whose writer make runs before it (checked where make starts on the
\* Makefile, the tree being the same in every later state); and at no
\* moment two running recipes write the same file or one reads a file
\* another one writes.
C30_SingleWriter ==
    /\ NothingMade => OneWriterPerFile
    /\ \A r1, r2 \in JobsRunning :
          r1 # r2 =>
             /\ Written(r1) \cap Written(r2) = {}
             /\ ReadBy(r1) \cap Written(r2) = {}

\* Two recipes run their commands at the same time, one of them an
\* assembly rule.
C30_Witness ==
    \E r1, r2 \in JobsRunning :
        /\ r1 # r2
        /\ Line(r1) = "cmd" /\ Line(r2) = "cmd"
        /\ ~is_leaf(r1) /\ r1 # RootLink

====
